---- MODULE Spec2Model ----
(***************************************************************************)
(* Model of the abuse-mitigation core of the Amria Mall front end:         *)
(*   src/js/main.js               AmriaSecurity (rate limiter, form guard) *)
(*   src/js/security-enhanced.js  AmriaSecurityEnhanced (secureRequest)    *)
(* Time is the value Date.now() returns, in milliseconds.                  *)
(***************************************************************************)
EXTENDS Integers, Sequences, FiniteSets, TLC

\* ------------------------------------------------------------------ bounds
\* Date.now() at page load (any positive millisecond timestamp).
T0 == 1000000
\* How many times the clock is advanced in one behaviour.
MaxTicks == 3
\* The same, in the behaviours of the form.
MaxFormTicks == 2

\* ------------------------------------------------- main.js: _config.rateLimit
maxAttempts == 3
windowMs == 60000
blockDurationMs == 300000

\* Keys handed to checkRateLimit by callers of the public API.
Keys == {"k1", "k2"}
\* 'form-' + getFingerprint(), the key handleFormSubmit uses
FormKey == "form-fp"
AllKeys == Keys \cup {FormKey}
\* Amounts by which Date.now() advances between two handlers.
Deltas == {1, 60000, 300000}

VARIABLES
    now,          \* Date.now()
    ticks,        \* number of clock advances so far
    rateLimiter,  \* _rateLimiter: Map key -> {count, firstAttempt, attempts}
    blockedIPs,   \* _blockedIPs: Map key -> {until}
    rateCheck,    \* the value returned by the last checkRateLimit call
    rlCall,       \* the last checkRateLimit call: its key, time and the maps before it
    callNo,       \* per key: number of checkRateLimit calls so far (capped)
    firstCallAt,  \* per key: time of the first checkRateLimit call
    lastCallAt,   \* per key: time of the latest checkRateLimit call
    env,          \* navigator / window as detectBot reads them
    fields,       \* the form's controls: name -> current value
    formLoadTimes, \* _formLoadTimes: WeakMap form -> load time
    isSubmitting, \* handleFormSubmit's closure variable
    submitBtn,    \* the form's submit control
    pending,      \* callback invocations not settled yet, each with its originalText
    ev,           \* the last submit event: the state it found and what it did
    lastSettle,   \* how the last settled callback ended
    settle,       \* the last settled callback: when, and what it did to the form
    timing,       \* the last checkFormTiming call: its form, time, and what it returned
    hpForm,       \* a form handed to checkHoneypot: its controls in document order
    hpCheck,      \* the last checkHoneypot call: the form it saw and what it returned
    draft,        \* a string the page is about to hand to sanitize
    cleaned,      \* the last sanitize call: its input and what it returned
    csrfToken,    \* security-enhanced.js: csrfToken
    errorCount,   \* security-enhanced.js: errorCount
    lockedUntil,  \* security-enhanced.js: lockedUntil
    session,      \* sessionStorage: accessToken, refreshToken
    calls,        \* the secureRequest calls in progress, one per caller
    reqEv,        \* the last step of a secureRequest call: what it found and did
    streak,       \* failing calls since the last ok response
    secureContext,\* isSecureContext()
    storageKey,   \* let storageKey: the CryptoKey in memory, or null
    sessionKey,   \* sessionStorage '_sk': the exported key, or absent
    keysMade,     \* how many keys generateKey has produced so far
    localStorage, \* localStorage: Map entry name -> stored string
    inits,        \* initSecureStorage calls in progress
    storing,      \* secureStore calls waiting for encrypt
    stoEv         \* the last secureStore / secureRetrieve / secureRemove that completed

rlVars == <<rateLimiter, blockedIPs, rateCheck, rlCall, callNo, firstCallAt, lastCallAt>>
fnVars == <<timing, hpForm, hpCheck, draft, cleaned>>
formVars == <<env, fields, formLoadTimes, isSubmitting, submitBtn, pending, ev, lastSettle,
             settle, fnVars>>
reqVars == <<csrfToken, errorCount, lockedUntil, session, calls, reqEv, streak>>
stoVars == <<secureContext, storageKey, sessionKey, keysMade, localStorage, inits,
            storing, stoEv>>
vars == <<now, ticks, rlVars, formVars, reqVars, stoVars>>

\* --------------------------------------------------------------- helpers
\* Math.floor in place of Math.ceil
CeilAsFloor(x, d) == x \div d

\* Math.ceil(x / d) for x >= 0, d > 0
Ceil(x, d) == IF x % d = 0 THEN x \div d ELSE (x \div d) + 1

\* Map.set(key, value)
MapSet(m, k, v) == [x \in (DOMAIN m) \cup {k} |-> IF x = k THEN v ELSE m[x]]
\* Map.delete(key)
MapDelete(m, k) == [x \in (DOMAIN m) \ {k} |-> m[x]]
\* Map.has(key)
MapHas(m, k) == k \in DOMAIN m

NoMap == [x \in {} |-> 0]
NoCall == [key |-> "", at |-> 0, prevAt |-> 0, rl |-> NoMap, blk |-> NoMap]
NoResult == [allowed |-> FALSE, none |-> TRUE]

\* ---------------------------------------------------------- checkRateLimit
\* now <= blockRecord.until in place of now < blockRecord.until
IsBlockedInclusive(blk, key, t) == MapHas(blk, key) /\ t <= blk[key].until

\* blockRecord && now < blockRecord.until
IsBlocked(blk, key, t) == MapHas(blk, key) /\ t < blk[key].until

\* >= in place of >
WindowExpiredInclusive(rec, t) == t - rec.firstAttempt >= windowMs

\* now - record.firstAttempt > windowMs
WindowExpired(rec, t) == t - rec.firstAttempt > windowMs

\* > in place of >=
MaxReachedStrict(rec) == rec.count > maxAttempts

\* record.count >= maxAttempts
MaxReached(rec) == rec.count >= maxAttempts

\* { count: 1, firstAttempt: now, attempts: [now] }
FreshRecord(t) == [count |-> 1, firstAttempt |-> t, attempts |-> <<t>>]

\* the record restarted at every counted attempt
BumpedRestart(rec, t) == [count |-> 1, firstAttempt |-> t, attempts |-> <<t>>]

\* record.count++; record.attempts.push(now)
Bumped(rec, t) == [rec EXCEPT !.count = @ + 1, !.attempts = Append(@, t)]

\* a limiter that throttles at the limit without reporting a block
RateResultThrottled(rl, blk, key, t) ==
    IF IsBlocked(blk, key, t)
    THEN [allowed |-> FALSE, blocked |-> TRUE,
          remainingSeconds |-> Ceil(blk[key].until - t, 1000)]
    ELSE IF ~MapHas(rl, key) \/ WindowExpired(rl[key], t)
    THEN [allowed |-> TRUE, remaining |-> maxAttempts - 1]
    ELSE IF MaxReached(rl[key])
    THEN [allowed |-> FALSE, blocked |-> FALSE,
          remainingSeconds |-> blockDurationMs \div 1000]
    ELSE [allowed |-> TRUE, remaining |-> maxAttempts - (rl[key].count + 1)]

\* The value checkRateLimit(key) returns at time t.
RateResult(rl, blk, key, t) ==
    IF IsBlocked(blk, key, t)
    THEN [allowed |-> FALSE, blocked |-> TRUE,
          remainingSeconds |-> Ceil(blk[key].until - t, 1000)]
    ELSE IF ~MapHas(rl, key) \/ WindowExpired(rl[key], t)
    THEN [allowed |-> TRUE, remaining |-> maxAttempts - 1]
    ELSE IF MaxReached(rl[key])
    THEN [allowed |-> FALSE, blocked |-> TRUE,
          remainingSeconds |-> blockDurationMs \div 1000]
    ELSE [allowed |-> TRUE, remaining |-> maxAttempts - (rl[key].count + 1)]

\* a limiter that drops the rate record of the key it blocks
RateLimiterAfterDropOnBlock(rl, blk, key, t) ==
    IF IsBlocked(blk, key, t) THEN rl
    ELSE IF ~MapHas(rl, key) \/ WindowExpired(rl[key], t)
    THEN MapSet(rl, key, FreshRecord(t))
    ELSE IF MaxReached(rl[key]) THEN MapDelete(rl, key)
    ELSE MapSet(rl, key, Bumped(rl[key], t))

\* _rateLimiter after checkRateLimit(key) at time t.
RateLimiterAfter(rl, blk, key, t) ==
    IF IsBlocked(blk, key, t) THEN rl
    ELSE IF ~MapHas(rl, key) \/ WindowExpired(rl[key], t)
    THEN MapSet(rl, key, FreshRecord(t))
    ELSE IF MaxReached(rl[key]) THEN rl
    ELSE MapSet(rl, key, Bumped(rl[key], t))

\* a limiter that restarts a live block at every refused call
BlockedAfterExtending(rl, blk, key, t) ==
    IF IsBlocked(blk, key, t) THEN MapSet(blk, key, [until |-> t + blockDurationMs])
    ELSE LET cleared == IF MapHas(blk, key) THEN MapDelete(blk, key) ELSE blk
         IN  IF ~MapHas(rl, key) \/ WindowExpired(rl[key], t) THEN cleared
             ELSE IF MaxReached(rl[key])
             THEN MapSet(cleared, key, [until |-> t + blockDurationMs])
             ELSE cleared

\* _blockedIPs after checkRateLimit(key) at time t.
BlockedAfter(rl, blk, key, t) ==
    IF IsBlocked(blk, key, t) THEN blk
    ELSE LET cleared == IF MapHas(blk, key) THEN MapDelete(blk, key) ELSE blk
         IN  IF ~MapHas(rl, key) \/ WindowExpired(rl[key], t) THEN cleared
             ELSE IF MaxReached(rl[key])
             THEN MapSet(cleared, key, [until |-> t + blockDurationMs])
             ELSE cleared

\* One call of checkRateLimit(key), with the observation of the call.
checkRateLimit(key) ==
    /\ rateCheck' = RateResult(rateLimiter, blockedIPs, key, now)
    /\ rateLimiter' = RateLimiterAfter(rateLimiter, blockedIPs, key, now)
    /\ blockedIPs' = BlockedAfter(rateLimiter, blockedIPs, key, now)
    /\ rlCall' = [key |-> key, at |-> now, prevAt |-> lastCallAt[key],
                  rl |-> rateLimiter, blk |-> blockedIPs]
    /\ lastCallAt' = [lastCallAt EXCEPT ![key] = now]
    /\ callNo' = [callNo EXCEPT ![key] = IF @ > maxAttempts THEN @ ELSE @ + 1]
    /\ firstCallAt' = [firstCallAt EXCEPT ![key] = IF callNo[key] = 0 THEN now ELSE @]

\* ------------------------------------------------------------ validators
\* Field values are JavaScript strings, modelled as sequences of UTF-16 code units.
IsDigit(c) == c \in 48..57
IsLatin(c) == c \in 65..90 \/ c \in 97..122
IsAlnum(c) == IsDigit(c) \/ IsLatin(c)
\* \s of a JavaScript regular expression; also what String.prototype.trim removes
IsSpace(c) ==
    \/ c \in 9..13 \/ c = 32 \/ c = 160 \/ c = 5760 \/ c \in 8192..8202
    \/ c \in {8232, 8233, 8239, 8287, 12288, 65279}
\* [a-zA-Z0-9.!#$%&'*+/=?^_`{|}~-]
IsEmailLocal(c) ==
    IsAlnum(c) \/ c \in {46, 33, 35, 36, 37, 38, 39, 42, 43, 47, 61, 63, 94, 95, 96,
                         123, 124, 125, 126, 45}
\* [\u0600-\u06FF\u0750-\u077Fa-zA-Z\s\-'.]
IsNameChar(c) ==
    c \in 1536..1791 \/ c \in 1872..1919 \/ IsLatin(c) \/ IsSpace(c) \/ c \in {45, 39, 46}

\* [a-zA-Z0-9](?:[a-zA-Z0-9-]{0,61}[a-zA-Z0-9])?(?:\.[a-zA-Z0-9](?:...)?)*  on all of d
IsDomain(d) ==
    /\ Len(d) > 0
    /\ \A i \in 1..Len(d) : IsAlnum(d[i]) \/ d[i] = 45 \/ d[i] = 46
    /\ \A i \in 1..Len(d) :
          (i = 1 \/ d[i - 1] = 46) => IsAlnum(d[i])
    /\ \A i \in 1..Len(d) :
          (i = Len(d) \/ d[i + 1] = 46) => IsAlnum(d[i])
    /\ \A i \in 1..Len(d) :
          i + 63 <= Len(d) => \E j \in i..(i + 63) : d[j] = 46

\* isValidEmail(email)
isValidEmail(email) ==
    /\ Len(email) > 0
    /\ Len(email) <= 254
    /\ \E at \in 1..Len(email) :
          /\ email[at] = 64
          /\ at > 1
          /\ \A i \in 1..(at - 1) : IsEmailLocal(email[i])
          /\ IsDomain(SubSeq(email, at + 1, Len(email)))

\* phone.replace(/[\s\-\(\)]/g, '')
RECURSIVE CleanPhone(_)
CleanPhone(p) ==
    IF p = <<>> THEN <<>>
    ELSE IF IsSpace(Head(p)) \/ Head(p) \in {45, 40, 41} THEN CleanPhone(Tail(p))
    ELSE <<Head(p)>> \o CleanPhone(Tail(p))

\* /^(\+964|00964|0)?7[3-9][0-9]{8}$/
MatchesIraqiMobile(c) ==
    \E pre \in {<<>>, <<43, 57, 54, 52>>, <<48, 48, 57, 54, 52>>, <<48>>} :
        /\ Len(c) = Len(pre) + 10
        /\ SubSeq(c, 1, Len(pre)) = pre
        /\ c[Len(pre) + 1] = 55
        /\ c[Len(pre) + 2] \in 51..57
        /\ \A i \in (Len(pre) + 3)..(Len(pre) + 10) : IsDigit(c[i])

\* isValidPhone(phone)
isValidPhone(phone) ==
    /\ Len(phone) > 0
    /\ Len(CleanPhone(phone)) <= 20
    /\ MatchesIraqiMobile(CleanPhone(phone))

\* isValidName(name)
isValidName(name) ==
    /\ Len(name) >= 2
    /\ Len(name) <= 100
    /\ \A i \in 1..Len(name) : IsNameChar(name[i])

\* !value.trim()
IsBlank(v) == \A i \in 1..Len(v) : IsSpace(v[i])

\* ---------------------------------------------------------------- sanitize
\* _config.maxInputLength
maxInputLength == 1000

\* The literal parts of _config.dangerousPatterns, as UTF-16 code units.
\* javascript:
LitJavascript == <<106, 97, 118, 97, 115, 99, 114, 105, 112, 116, 58>>
\* on
LitOnPrefix == <<111, 110>>
\* data:
LitData == <<100, 97, 116, 97, 58>>
\* vbscript:
LitVbscript == <<118, 98, 115, 99, 114, 105, 112, 116, 58>>
\* expression
LitExpression == <<101, 120, 112, 114, 101, 115, 115, 105, 111, 110>>
\* <iframe
LitIframe == <<60, 105, 102, 114, 97, 109, 101>>
\* <object
LitObject == <<60, 111, 98, 106, 101, 99, 116>>
\* <embed
LitEmbed == <<60, 101, 109, 98, 101, 100>>
\* <form
LitFormTag == <<60, 102, 111, 114, 109>>
\* <script
LitScriptOpen == <<60, 115, 99, 114, 105, 112, 116>>
\* </script>
LitScriptClose == <<60, 47, 115, 99, 114, 105, 112, 116, 62>>

\* The i flag: letters are compared without regard to case.
Lower(c) == IF c \in 65..90 THEN c + 32 ELSE c
\* \w
IsWord(c) == IsAlnum(c) \/ c = 95

\* The literal lit stands in s at position i.
LitAt(s, i, lit) ==
    /\ i + Len(lit) - 1 <= Len(s)
    /\ \A k \in 1..Len(lit) : Lower(s[i + k - 1]) = lit[k]

\* The length of the longest run of word (\w) or space (\s) characters that starts at i.
RECURSIVE RunLen(_, _, _)
RunLen(s, i, kind) ==
    IF i > Len(s) THEN 0
    ELSE IF (kind = "word" /\ IsWord(s[i])) \/ (kind = "space" /\ IsSpace(s[i]))
    THEN 1 + RunLen(s, i + 1, kind)
    ELSE 0

\* The first position at or after i where </script> stands, 0 when there is none.
RECURSIVE NextScriptClose(_, _)
NextScriptClose(s, i) ==
    IF i > Len(s) THEN 0
    ELSE IF LitAt(s, i, LitScriptClose) THEN i
    ELSE NextScriptClose(s, i + 1)

\* The patterns of _config.dangerousPatterns, in their order.
Patterns ==
    <<"script", "javascript", "on", "data", "vbscript", "expression", "iframe", "object",
      "embed", "form">>

\* The length of the match of a pattern that starts at position i of s, 0 when the
\* pattern does not match there.
MatchLen(s, i, pattern) ==
    CASE pattern = "script" ->
            \* <script\b[^<]*(?:(?!<\/script>)<[^<]*)*<\/script>: up to the first
            \* </script> that follows
            IF /\ LitAt(s, i, LitScriptOpen)
               /\ i + 7 <= Len(s)
               /\ ~IsWord(s[i + 7])
               /\ NextScriptClose(s, i + 7) # 0
            THEN NextScriptClose(s, i + 7) + Len(LitScriptClose) - i
            ELSE 0
      [] pattern = "javascript" -> IF LitAt(s, i, LitJavascript) THEN Len(LitJavascript) ELSE 0
      [] pattern = "on" ->
            \* on\w+\s*= : the word run and the space run are maximal, as neither
            \* \s nor = is a word character
            LET w == RunLen(s, i + 2, "word")
                sp == RunLen(s, i + 2 + w, "space")
            IN  IF /\ LitAt(s, i, LitOnPrefix)
                   /\ w >= 1
                   /\ i + 2 + w + sp <= Len(s)
                   /\ s[i + 2 + w + sp] = 61
                THEN 2 + w + sp + 1
                ELSE 0
      [] pattern = "data" -> IF LitAt(s, i, LitData) THEN Len(LitData) ELSE 0
      [] pattern = "vbscript" -> IF LitAt(s, i, LitVbscript) THEN Len(LitVbscript) ELSE 0
      [] pattern = "expression" ->
            \* expression\s*\(
            LET sp == RunLen(s, i + Len(LitExpression), "space")
            IN  IF /\ LitAt(s, i, LitExpression)
                   /\ i + Len(LitExpression) + sp <= Len(s)
                   /\ s[i + Len(LitExpression) + sp] = 40
                THEN Len(LitExpression) + sp + 1
                ELSE 0
      [] pattern = "iframe" -> IF LitAt(s, i, LitIframe) THEN Len(LitIframe) ELSE 0
      [] pattern = "object" -> IF LitAt(s, i, LitObject) THEN Len(LitObject) ELSE 0
      [] pattern = "embed" -> IF LitAt(s, i, LitEmbed) THEN Len(LitEmbed) ELSE 0
      [] pattern = "form" -> IF LitAt(s, i, LitFormTag) THEN Len(LitFormTag) ELSE 0

\* pattern.test(s), for a pattern without lastIndex
Contains(s, pattern) == \E i \in 1..Len(s) : MatchLen(s, i, pattern) > 0

\* s.replace(pattern, '') with the g flag, from position i on: the matches are
\* found from left to right and do not overlap; what is left is not scanned again.
RECURSIVE RemoveFrom(_, _, _)
RemoveFrom(s, i, pattern) ==
    IF i > Len(s) THEN <<>>
    ELSE IF MatchLen(s, i, pattern) > 0
    THEN RemoveFrom(s, i + MatchLen(s, i, pattern), pattern)
    ELSE <<s[i]>> \o RemoveFrom(s, i + 1, pattern)

\* _config.dangerousPatterns.forEach(pattern => clean = clean.replace(pattern, ''))
\* for the patterns from the n-th on
RECURSIVE RemovePatterns(_, _)
RemovePatterns(s, n) ==
    IF n > Len(Patterns) THEN s
    ELSE RemovePatterns(RemoveFrom(s, 1, Patterns[n]), n + 1)

\* input.trim()
RECURSIVE TrimLeft(_)
TrimLeft(s) == IF s # <<>> /\ IsSpace(Head(s)) THEN TrimLeft(Tail(s)) ELSE s
RECURSIVE TrimRight(_)
TrimRight(s) ==
    IF s # <<>> /\ IsSpace(s[Len(s)]) THEN TrimRight(SubSeq(s, 1, Len(s) - 1)) ELSE s
Trim(s) == TrimRight(TrimLeft(s))

\* .substring(0, maxLength)
Substring(s, maxLength) == IF Len(s) > maxLength THEN SubSeq(s, 1, maxLength) ELSE s

\* What one character becomes through div.textContent / div.innerHTML and the
\* replacements that follow: & < > and the no-break space, then ' " ` ( )
Encoded(c) ==
    CASE c = 38 -> <<38, 97, 109, 112, 59>>              \* &amp;
      [] c = 60 -> <<38, 108, 116, 59>>                  \* &lt;
      [] c = 62 -> <<38, 103, 116, 59>>                  \* &gt;
      [] c = 160 -> <<38, 110, 98, 115, 112, 59>>        \* &nbsp;
      [] c = 39 -> <<38, 35, 120, 50, 55, 59>>           \* &#x27;
      [] c = 34 -> <<38, 113, 117, 111, 116, 59>>        \* &quot;
      [] c = 96 -> <<38, 35, 120, 54, 48, 59>>           \* &#x60;
      [] c = 40 -> <<38, 35, 52, 48, 59>>                \* &#40;
      [] c = 41 -> <<38, 35, 52, 49, 59>>                \* &#41;
      [] OTHER -> <<c>>

RECURSIVE Encode(_)
Encode(s) == IF s = <<>> THEN <<>> ELSE Encoded(Head(s)) \o Encode(Tail(s))

\* sanitize(input) for a string input and the default type 'text'
sanitize(input) == Encode(RemovePatterns(Substring(Trim(input), maxInputLength), 1))

\* ------------------------------------------------------------- detectBot
\* !navigator.webdriver === undefined: a boolean compared with undefined
WebdriverFlag(e) == FALSE
\* navigator.languages && navigator.languages.length === 0
NoLanguagesFlag(e) == e.languages = "empty"
\* /Chrome/.test(navigator.userAgent)
UAHasChrome(e) == e.ua \in {"Chrome", "HeadlessChrome"}
\* !window.chrome && /Chrome/.test(navigator.userAgent)
FakeChromeFlag(e) == ~e.chrome /\ UAHasChrome(e)
\* /HeadlessChrome/.test(navigator.userAgent)
HeadlessFlag(e) == e.ua = "HeadlessChrome"

BotFlag(e, tag) ==
    CASE tag = "webdriver" -> WebdriverFlag(e)
      [] tag = "no-languages" -> NoLanguagesFlag(e)
      [] tag = "fake-chrome" -> FakeChromeFlag(e)
      [] tag = "headless" -> HeadlessFlag(e)

\* detectBot(): the suspicion tags, <<>> standing for null
detectBot(e) ==
    SelectSeq(<<"webdriver", "no-languages", "fake-chrome", "headless">>,
              LAMBDA tag : BotFlag(e, tag))

\* ------------------------------------------------------------ the form
\* The one form of the page, as initSecureForms finds and extends it.
Form == "contact"
\* Its controls in document order; initSecureForms appends the decoy "website".
FormFields ==
    << [name |-> "name", type |-> "text", required |-> TRUE],
       [name |-> "email", type |-> "email", required |-> TRUE],
       [name |-> "phone", type |-> "tel", required |-> FALSE],
       [name |-> "message", type |-> "textarea", required |-> TRUE],
       [name |-> "website", type |-> "text", required |-> FALSE] >>
FieldNames == {FormFields[i].name : i \in 1..Len(FormFields)}
\* ['website', 'url', 'fax']
HoneypotNames == {"website", "url", "fax"}
\* key === 'name' || key.includes('name'), over the names of this form
KeyIncludesName(key) == key \in {"name"}

\* Values a user or a script types into the controls.
Empty == <<>>
NameOk == <<65, 108, 105>>
NameBad == <<65, 49>>
EmailOk == <<117, 64, 101, 46, 99, 111>>
EmailBad == <<117, 46, 101>>
PhoneOk == <<48, 55, 55, 48, 49, 50, 51, 52, 53, 54, 55>>
PhoneBad == <<49, 50, 51, 52, 53>>
MsgOk == <<104, 105>>
MsgBlank == <<32>>
Junk == <<120>>

FormValue(n, e, p, m, w) ==
    [name |-> n, email |-> e, phone |-> p, message |-> m, website |-> w]
\* form.reset(): every control back to its default value
DefaultFields == FormValue(Empty, Empty, Empty, Empty, Empty)
\* The ways the form gets filled in.
Fills ==
    { FormValue(NameOk, EmailOk, PhoneOk, MsgOk, Empty),
      FormValue(NameOk, EmailOk, Empty, MsgOk, Empty),
      FormValue(NameBad, EmailOk, PhoneOk, MsgOk, Empty),
      FormValue(NameOk, EmailBad, PhoneOk, MsgOk, Empty),
      FormValue(NameOk, EmailOk, PhoneBad, MsgOk, Empty),
      FormValue(NameOk, EmailOk, PhoneOk, MsgBlank, Empty),
      FormValue(NameOk, EmailOk, PhoneOk, MsgOk, Junk) }

\* ---------------------------------------------------------- checkHoneypot
\* A control of a form: its name, whether it carries the hp-field class, its value.
Control(name, hp, value) == [name |-> name, hp |-> hp, value |-> value]

\* [name="website"], [name="url"], [name="fax"], .hp-field
IsDecoy(control) == control.name \in HoneypotNames \/ control.hp

\* The decoys of a form, by position.
DecoysOf(controls) == {i \in 1..Len(controls) : IsDecoy(controls[i])}

\* form.querySelector(selectors): the first control in document order that matches,
\* 0 when none does
FirstMatch(controls) ==
    IF DecoysOf(controls) = {} THEN 0
    ELSE CHOOSE i \in DecoysOf(controls) : \A j \in DecoysOf(controls) : i <= j

\* checkHoneypot(form) on a form given by its controls
HoneypotHit(controls) ==
    FirstMatch(controls) # 0 /\ controls[FirstMatch(controls)].value # Empty

\* form.querySelector('[name="website"], [name="url"], [name="fax"], .hp-field'):
\* the first control in document order that matches, 0 when none does
FirstDecoy ==
    LET hits == {i \in 1..Len(FormFields) : FormFields[i].name \in HoneypotNames}
    IN  IF hits = {} THEN 0 ELSE CHOOSE i \in hits : \A j \in hits : i <= j

\* checkHoneypot(form)
checkHoneypot(f) == FirstDecoy # 0 /\ f[FormFields[FirstDecoy].name] # Empty

\* ------------------------------------------- trackFormLoad / checkFormTiming
minFillTime == 3000

KeepLoadTime(lt, form, t) == lt
\* trackFormLoad(form)
trackFormLoad(lt, form, t) == MapSet(lt, form, t)

TooFastInclusive(fillTime) == fillTime <= minFillTime
\* fillTime < minFillTime
TooFast(fillTime) == fillTime < minFillTime

\* checkFormTiming(form); a load time of 0 is falsy, like an absent one
checkFormTiming(lt, form, t) ==
    IF ~MapHas(lt, form) \/ lt[form] = 0 THEN TRUE
    ELSE ~TooFast(t - lt[form])

\* How many pieces an input of sanitize is put together from.
MaxFragments == 3
\* The pieces: |javascript:|  |java|  |script:|  |JAVASCRIPT:|  |data:|  |da|  |ta:|  |<iframe|  |on|  |click=|  |x|  | |  |<script>|  |</script>|  |expression|  |(|
Fragments ==
    { <<106, 97, 118, 97, 115, 99, 114, 105, 112, 116, 58>>,
      <<106, 97, 118, 97>>,
      <<115, 99, 114, 105, 112, 116, 58>>,
      <<74, 65, 86, 65, 83, 67, 82, 73, 80, 84, 58>>,
      <<100, 97, 116, 97, 58>>,
      <<100, 97>>,
      <<116, 97, 58>>,
      <<60, 105, 102, 114, 97, 109, 101>>,
      <<111, 110>>,
      <<99, 108, 105, 99, 107, 61>>,
      <<120>>,
      <<32>>,
      <<60, 115, 99, 114, 105, 112, 116, 62>>,
      <<60, 47, 115, 99, 114, 105, 112, 116, 62>>,
      <<101, 120, 112, 114, 101, 115, 115, 105, 111, 110>>,
      <<40>> }

NotCleaned == [called |-> FALSE, pieces |-> 0, input |-> <<>>, output |-> <<>>]

\* The page puts one more piece at the end of the string.
AppendFragment(piece) ==
    /\ cleaned.pieces < MaxFragments
    /\ draft' = draft \o piece
    /\ cleaned' = [cleaned EXCEPT !.pieces = cleaned.pieces + 1]
    /\ UNCHANGED <<env, fields, formLoadTimes, isSubmitting, submitBtn, pending, ev,
                   lastSettle, settle, timing, hpForm, hpCheck>>

\* AmriaSecurity.sanitize(draft), called by the page.
CallSanitize ==
    /\ cleaned' = [cleaned EXCEPT !.called = TRUE, !.input = draft,
                                  !.output = sanitize(draft)]
    /\ UNCHANGED <<env, fields, formLoadTimes, isSubmitting, submitBtn, pending, ev,
                   lastSettle, settle, timing, hpForm, hpCheck, draft>>

\* How many controls a form handed to checkHoneypot has.
MaxControls == 3
\* The controls such a form is built from: decoys by name, a decoy by class, and
\* an ordinary field.
ControlKinds ==
    { Control("website", FALSE, Empty), Control("url", FALSE, Empty),
      Control("fax", FALSE, Empty), Control("company", TRUE, Empty),
      Control("email", FALSE, Empty) }

NoHoneypotCheck == [called |-> FALSE, form |-> <<>>, result |-> FALSE]

\* The page's markup, or initSecureForms, puts one more control at the end of the form.
AddControl(control) ==
    /\ Len(hpForm) < MaxControls
    /\ hpForm' = Append(hpForm, control)
    /\ UNCHANGED <<env, fields, formLoadTimes, isSubmitting, submitBtn, pending, ev,
                   lastSettle, settle, timing, hpCheck, draft, cleaned>>

\* The user, or a bot, types into the i-th control or clears it.
TypeInto(i, value) ==
    /\ i \in 1..Len(hpForm)
    /\ hpForm' = [hpForm EXCEPT ![i].value = value]
    /\ UNCHANGED <<env, fields, formLoadTimes, isSubmitting, submitBtn, pending, ev,
                   lastSettle, settle, timing, hpCheck, draft, cleaned>>

\* AmriaSecurity.checkHoneypot(form), called by the page.
CheckHoneypot ==
    /\ hpCheck' = [called |-> TRUE, form |-> hpForm, result |-> HoneypotHit(hpForm)]
    /\ UNCHANGED <<env, fields, formLoadTimes, isSubmitting, submitBtn, pending, ev,
                   lastSettle, settle, timing, hpForm, draft, cleaned>>

\* The forms of the page that the public trackFormLoad / checkFormTiming are
\* called with.
Forms == {Form, "newsletter"}

\* A checkFormTiming(form) call at time `at`: the load time recorded for the form
\* (loadTime, when tracked) and what the call returned.
NoTiming == [form |-> "", at |-> 0, tracked |-> FALSE, loadTime |-> 0, result |-> TRUE]

\* AmriaSecurity.trackFormLoad(form), called by the page.
TrackFormLoad(form) ==
    /\ formLoadTimes' = trackFormLoad(formLoadTimes, form, now)
    /\ UNCHANGED <<env, fields, isSubmitting, submitBtn, pending, ev, lastSettle, settle, fnVars>>

\* AmriaSecurity.checkFormTiming(form), called by the page.
CheckFormTiming(form) ==
    /\ timing' = [form |-> form, at |-> now, tracked |-> MapHas(formLoadTimes, form),
                  loadTime |-> IF MapHas(formLoadTimes, form) THEN formLoadTimes[form]
                               ELSE 0,
                  result |-> checkFormTiming(formLoadTimes, form, now)]
    /\ UNCHANGED <<env, fields, formLoadTimes, isSubmitting, submitBtn, pending, ev,
                   lastSettle, settle, hpForm, hpCheck, draft, cleaned>>

\* ------------------------------------------------------- handleFormSubmit
\* a handler without the double-submission guard
NoInFlightGuard(sub) == FALSE

\* if (isSubmitting) return;
InFlightGuard(sub) == sub

\* The validation applied to one entry of the form data: TRUE when it is refused.
FieldError(field, value) ==
    IF field.type = "email" THEN ~isValidEmail(value)
    ELSE IF field.type = "tel" THEN value # Empty /\ ~isValidPhone(value)
    ELSE IF KeyIncludesName(field.name) THEN ~isValidName(value)
    ELSE FALSE

\* The entry at which the loop over formData.entries() breaks, 0 when it runs through.
FirstInvalid(f) ==
    LET bad == {i \in 1..Len(FormFields) :
                   /\ FormFields[i].name \notin HoneypotNames
                   /\ FieldError(FormFields[i], f[FormFields[i].name])}
    IN  IF bad = {} THEN 0 ELSE CHOOSE i \in bad : \A j \in bad : i <= j

\* a handler without the check of the required controls
NoRequiredCheck(f) == 0

\* The first [required] control whose trimmed value is empty, 0 when there is none.
FirstMissing(f) ==
    LET miss == {i \in 1..Len(FormFields) :
                    FormFields[i].required /\ IsBlank(f[FormFields[i].name])}
    IN  IF miss = {} THEN 0 ELSE CHOOSE i \in miss : \A j \in miss : i <= j

\* a handler that consults the rate limiter before the timing check
ReachesRateLimitBeforeTiming(sub, e, f, lt, t) ==
    /\ ~InFlightGuard(sub)
    /\ detectBot(e) = <<>>
    /\ ~checkHoneypot(f)

\* The gates before the rate limiter all let the event through.
ReachesRateLimit(sub, e, f, lt, t) ==
    /\ ~InFlightGuard(sub)
    /\ detectBot(e) = <<>>
    /\ ~checkHoneypot(f)
    /\ checkFormTiming(lt, Form, t)

\* a handler that validates the fields before it looks at the rate limiter's answer
SubmitOutcomeValidationFirst(sub, e, f, lt, t, rc) ==
    IF InFlightGuard(sub) THEN "dropped"
    ELSE IF detectBot(e) # <<>> THEN "bot"
    ELSE IF checkHoneypot(f) THEN "honeypot"
    ELSE IF ~checkFormTiming(lt, Form, t) THEN "too-fast"
    ELSE IF FirstInvalid(f) # 0 THEN "invalid"
    ELSE IF FirstMissing(f) # 0 THEN "required"
    ELSE IF ~rc.allowed THEN (IF rc.blocked THEN "blocked" ELSE "throttled")
    ELSE "sent"

\* Where the handler of one submit event stops; rc is what checkRateLimit returned.
SubmitOutcome(sub, e, f, lt, t, rc) ==
    IF InFlightGuard(sub) THEN "dropped"
    ELSE IF detectBot(e) # <<>> THEN "bot"
    ELSE IF checkHoneypot(f) THEN "honeypot"
    ELSE IF ~checkFormTiming(lt, Form, t) THEN "too-fast"
    ELSE IF ~rc.allowed THEN (IF rc.blocked THEN "blocked" ELSE "throttled")
    ELSE IF FirstInvalid(f) # 0 THEN "invalid"
    ELSE IF FirstMissing(f) # 0 THEN "required"
    ELSE "sent"

\* The submit control: a <button>, an <input type="submit">, or none.
InitialBtn(kind) ==
    CASE kind = "button" -> [kind |-> kind, disabled |-> FALSE, textContent |-> "Send", value |-> ""]
      [] kind = "input" -> [kind |-> kind, disabled |-> FALSE, textContent |-> "", value |-> "Send"]
      [] kind = "none" -> [kind |-> kind, disabled |-> FALSE, textContent |-> "", value |-> ""]
\* What the user reads on the control.
Label(btn) == IF btn.kind = "input" THEN btn.value ELSE btn.textContent

\* submitBtn.textContent !== undefined: every element has a textContent
HasTextContent(btn) == TRUE
\* submitBtn?.textContent || submitBtn?.value
OriginalText(btn) == IF btn.textContent # "" THEN btn.textContent ELSE btn.value
SetText(btn, text) ==
    IF HasTextContent(btn) THEN [btn EXCEPT !.textContent = text]
    ELSE [btn EXCEPT !.value = text]
\* submitBtn.disabled = true and the "sending" label
DisableBtn(btn) ==
    IF btn.kind = "none" THEN btn ELSE SetText([btn EXCEPT !.disabled = TRUE], "Sending")

\* a finally block that gives the label back and leaves the control disabled
RestoreBtnStillDisabled(btn, originalText) ==
    IF btn.kind = "none" THEN btn ELSE SetText(btn, originalText)

\* finally: submitBtn.disabled = false and the original label
RestoreBtn(btn, originalText) ==
    IF btn.kind = "none" THEN btn ELSE SetText([btn EXCEPT !.disabled = FALSE], originalText)

\* _formLoadTimes.get(form), 0 standing for undefined
LoadTime(lt, form) == IF MapHas(lt, form) THEN lt[form] ELSE 0

\* A settled callback: how it ended and when, whether the form's controls were
\* given back their default values (reset) or left as they were (kept), and the
\* form's load time before and after.
Settled(how) ==
    [how |-> how, at |-> now, reset |-> fields' = DefaultFields, kept |-> fields' = fields,
     loadBefore |-> LoadTime(formLoadTimes, Form),
     loadAfter |-> LoadTime(formLoadTimes', Form)]
NoSettle ==
    [how |-> "none", at |-> 0, reset |-> FALSE, kept |-> TRUE, loadBefore |-> 0,
     loadAfter |-> 0]

NoEvent ==
    [outcome |-> "none", at |-> 0, invoked |-> FALSE, wasSubmitting |-> FALSE,
     nowSubmitting |-> FALSE, inFlight |-> 0, fields |-> DefaultFields, loadTimes |-> NoMap,
     rate |-> "skipped", settledBefore |-> "none", settle |-> NoSettle]

\* One submit event of the form, up to the await of the callback.
SubmitEvent ==
    /\ IF ReachesRateLimit(isSubmitting, env, fields, formLoadTimes, now)
       THEN checkRateLimit(FormKey)
       ELSE UNCHANGED rlVars
    /\ LET out == SubmitOutcome(isSubmitting, env, fields, formLoadTimes, now, rateCheck')
       IN  /\ IF out = "sent"
              THEN /\ isSubmitting' = TRUE
                   /\ submitBtn' = DisableBtn(submitBtn)
                   /\ pending' = Append(pending, [originalText |-> OriginalText(submitBtn)])
              ELSE UNCHANGED <<isSubmitting, submitBtn, pending>>
           /\ ev' = [outcome |-> out, at |-> now,
                     invoked |-> Len(pending') = Len(pending) + 1,
                     wasSubmitting |-> isSubmitting,
                     nowSubmitting |-> isSubmitting',
                     inFlight |-> Len(pending),
                     fields |-> fields, loadTimes |-> formLoadTimes,
                     rate |-> IF ~ReachesRateLimit(isSubmitting, env, fields, formLoadTimes, now)
                              THEN "skipped"
                              ELSE IF rateCheck'.allowed THEN "allowed" ELSE "refused",
                     settledBefore |-> lastSettle, settle |-> settle]
    /\ UNCHANGED <<now, ticks, env, fields, formLoadTimes, lastSettle, settle, fnVars, reqVars,
                   stoVars>>

\* The callback's promise is fulfilled: the code after the await, then finally.
CallbackResolves ==
    \E i \in 1..Len(pending) :
        /\ fields' = DefaultFields
        /\ formLoadTimes' = trackFormLoad(formLoadTimes, Form, now)
        /\ isSubmitting' = FALSE
        /\ submitBtn' = RestoreBtn(submitBtn, pending[i].originalText)
        /\ pending' = SubSeq(pending, 1, i - 1) \o SubSeq(pending, i + 1, Len(pending))
        /\ lastSettle' = "resolved"
        /\ settle' = Settled("resolved")
        /\ UNCHANGED <<now, ticks, rlVars, env, ev, fnVars, reqVars, stoVars>>

\* The callback's promise is rejected: the catch block, then finally.
CallbackRejects ==
    \E i \in 1..Len(pending) :
        /\ isSubmitting' = FALSE
        /\ submitBtn' = RestoreBtn(submitBtn, pending[i].originalText)
        /\ pending' = SubSeq(pending, 1, i - 1) \o SubSeq(pending, i + 1, Len(pending))
        /\ lastSettle' = "rejected"
        /\ UNCHANGED <<now, ticks, rlVars, env, fields, formLoadTimes, ev, fnVars, reqVars,
                       stoVars>>
        /\ settle' = Settled("rejected")

\* The user (or a script) fills in the form.
FillForm ==
    /\ \E f \in Fills : fields' = f
    /\ UNCHANGED <<now, ticks, rlVars, env, formLoadTimes, isSubmitting, submitBtn,
                   pending, ev, lastSettle, settle, fnVars, reqVars, stoVars>>

\* The pages the form lives on: the browser and the kind of submit control.
Browser(ua, chrome, languages, webdriver) ==
    [ua |-> ua, chrome |-> chrome, languages |-> languages, webdriver |-> webdriver]
Pages ==
    { [env |-> Browser("Chrome", TRUE, "some", FALSE), btn |-> "button"],
      [env |-> Browser("Firefox", FALSE, "some", FALSE), btn |-> "input"],
      [env |-> Browser("Chrome", TRUE, "some", TRUE), btn |-> "none"],
      [env |-> Browser("HeadlessChrome", FALSE, "some", TRUE), btn |-> "button"],
      [env |-> Browser("Firefox", FALSE, "empty", FALSE), btn |-> "button"] }

\* After DOMContentLoaded: initSecureForms has registered the form at time T0.
InitPage(page) ==
    /\ env = page.env
    /\ fields = DefaultFields
    /\ formLoadTimes = trackFormLoad(NoMap, Form, T0)
    /\ isSubmitting = FALSE
    /\ submitBtn = InitialBtn(page.btn)
    /\ pending = <<>>
    /\ ev = NoEvent
    /\ lastSettle = "none"
    /\ settle = NoSettle
    /\ timing = NoTiming
    /\ hpForm = <<>>
    /\ hpCheck = NoHoneypotCheck
    /\ draft = <<>>
    /\ cleaned = NotCleaned

\* ========================================================================
\* security-enhanced.js: secureRequest, fetchCSRFToken, refreshAuthToken
\* ========================================================================
maxConsecutiveErrors == 3
\* 5 * 60 * 1000
lockoutDuration == 300000

\* null
Null == "null"
\* Concurrent callers of secureRequest.
Callers == {1, 2}
\* options.method
Methods == {"GET", "POST"}
\* ['POST', 'PUT', 'DELETE', 'PATCH'].includes(options.method?.toUpperCase())
IsMutating(method) == method \in {"POST", "PUT", "DELETE", "PATCH"}
\* The main request of one top-level call is counted up to this many sends.
MaxSends == 3

\* a gate that lets every call through
NeverLocked(lu, t) == FALSE

\* lockedUntil = null; the code only tests its truthiness, and so 0 stands for it
NotLocked == 0

\* lockedUntil && Date.now() < lockedUntil
Locked(lu, t) == lu # NotLocked /\ t < lu

\* === in place of >=
ThresholdExactly(n) == n = maxConsecutiveErrors

\* > in place of >=
ThresholdExceeded(n) == n > maxConsecutiveErrors

\* errorCount >= config.maxConsecutiveErrors
ThresholdReached(n) == n >= maxConsecutiveErrors

IdleCall == [pc |-> "idle", method |-> Null, sends |-> 0, csrf |-> Null]

\* What the last step of a secureRequest call did: its kind ("invoke": the call or
\* the retry started; "csrf", "fetch", "refresh": that request was answered), how
\* the call ended if it did (outcome), whether the step sent a request, how often
\* the call's main request has been sent, and errorCount / lockedUntil around it;
\* answer is what the backend answered at this step ("none" at an invocation) and
\* carries the Retry-After value in the message of the error the call rejects with.
Answer(status, retryAfter) == [status |-> status, retryAfter |-> retryAfter]
Event(kind, p, answer, outcome, carries) ==
    [kind |-> kind, at |-> now, answer |-> answer, outcome |-> outcome,
     carries |-> carries,
     retry |-> kind = "invoke" /\ calls[p].pc = "refresh",
     sent |-> calls'[p].pc # "idle",
     sends |-> IF calls'[p].pc = "idle" THEN calls[p].sends ELSE calls'[p].sends,
     lockBefore |-> lockedUntil, lockAfter |-> lockedUntil',
     errBefore |-> errorCount, errAfter |-> errorCount',
     streak |-> streak']
NoReqEv ==
    [kind |-> "none", at |-> 0, answer |-> Answer("none", Null), outcome |-> "none",
     carries |-> Null, retry |-> FALSE, sent |-> FALSE,
     sends |-> 0, lockBefore |-> NotLocked, lockAfter |-> NotLocked,
     errBefore |-> 0, errAfter |-> 0, streak |-> 0]

\* The request secureRequest sends with fetch, its x-csrf-token header taken from
\* the cached token.
Sending(c, method) ==
    [pc |-> "fetch", method |-> method,
     sends |-> IF c.sends < MaxSends THEN c.sends + 1 ELSE c.sends,
     csrf |-> csrfToken]

\* secureRequest up to its first await, for a call whose main request has been
\* sent `sends` times so far (0 for a call from outside, more for the retry).
BeginCall(method, sends) ==
    IF Locked(lockedUntil, now) THEN IdleCall
    ELSE IF csrfToken = Null /\ IsMutating(method)
    THEN [IdleCall EXCEPT !.pc = "csrf", !.method = method, !.sends = sends]
    ELSE Sending([IdleCall EXCEPT !.sends = sends], method)

\* One invocation of secureRequest by caller p: the part that runs before it yields.
Invoke(p, method, sends) ==
    /\ calls' = [calls EXCEPT ![p] = BeginCall(method, sends)]
    /\ UNCHANGED <<errorCount, lockedUntil, streak>>
    /\ reqEv' = Event("invoke", p, Answer("none", Null),
                    IF calls'[p].pc = "idle" THEN "locked" ELSE "pending", Null)

\* A caller invokes secureRequest(url, {method}).
CallSecureRequest(p, method) ==
    /\ calls[p].pc = "idle"
    /\ Invoke(p, method, 0)
    /\ UNCHANGED <<csrfToken, session>>

\* fetchCSRFToken's request is answered: the token is cached when the answer is ok;
\* secureRequest then builds its headers and sends the main request.
CsrfFetchResponds(p, answer) ==
    /\ calls[p].pc = "csrf"
    /\ csrfToken' = IF answer = "ok" THEN "csrf-token" ELSE csrfToken
    /\ calls' = [calls EXCEPT ![p] =
                    [Sending(calls[p], calls[p].method) EXCEPT !.csrf = csrfToken']]
    /\ UNCHANGED <<errorCount, lockedUntil, session, streak>>
    /\ reqEv' = Event("csrf", p, Answer(answer, Null), "pending", Null)

\* The call of caller p ends: its promise settles with `outcome`.
Settle(p, kind, answer, outcome, carries) ==
    /\ calls' = [calls EXCEPT ![p] = IdleCall]
    /\ reqEv' = Event(kind, p, answer, outcome, carries)

\* Values of a 429 response's Retry-After header; headers.get gives null without one.
RetryAfters == {"30", Null}

\* new Error(`Rate limited. Retry after ${retryAfter} seconds.`)
RateLimitedError(retryAfter) == [name |-> "rate-limited", retryAfter |-> retryAfter]
\* The error a rejected fetch throws.
NetworkError == [name |-> "network-error", retryAfter |-> Null]
\* new Error('Too many errors. Please try again later.')
TooManyErrors == [name |-> "too-many-errors", retryAfter |-> Null]

\* The error secureRequest's catch block throws, having caught `error` and counted it.
Rethrown(error, count) ==
    IF ThresholdReached(count) THEN TooManyErrors ELSE error

\* a catch block that the failure of a retry passes through twice, as it would
\* had the retry been awaited inside the try block
CatchTwiceForRetry(p, answer, error) ==
    /\ errorCount' = errorCount + (IF calls[p].sends >= 2 THEN 2 ELSE 1)
    /\ streak' = streak + 1
    /\ lockedUntil' = IF ThresholdReached(errorCount')
                      THEN now + lockoutDuration ELSE lockedUntil
    /\ Settle(p, "fetch", answer, Rethrown(error, errorCount').name,
              Rethrown(error, errorCount').retryAfter)

\* secureRequest's catch block for caller p, the error caught being `error`.
Catch(p, answer, error) ==
    /\ errorCount' = errorCount + 1
    /\ streak' = streak + 1
    /\ lockedUntil' = IF ThresholdReached(errorCount')
                      THEN now + lockoutDuration ELSE lockedUntil
    /\ Settle(p, "fetch", answer, Rethrown(error, errorCount').name,
              Rethrown(error, errorCount').retryAfter)

\* a count that no response resets
CountKept(ok, count) == count

\* if (response.ok) { errorCount = 0; }
CountAfterResponse(ok, count) == IF ok THEN 0 ELSE count

\* The main request is answered with a response, or fetch rejects.
FetchResponds(p, answer, retryAfter) ==
    /\ calls[p].pc = "fetch"
    /\ UNCHANGED <<csrfToken, session>>
    /\ CASE answer = "error" -> Catch(p, Answer(answer, Null), NetworkError)
         [] answer = "429" -> Catch(p, Answer(answer, retryAfter), RateLimitedError(retryAfter))
         [] answer = "ok" ->
              /\ errorCount' = CountAfterResponse(TRUE, errorCount)
              /\ streak' = 0
              /\ lockedUntil' = lockedUntil
              /\ Settle(p, "fetch", Answer(answer, Null), "response-ok", Null)
         [] answer = "500" ->
              /\ errorCount' = CountAfterResponse(FALSE, errorCount)
              /\ UNCHANGED <<lockedUntil, streak>>
              /\ Settle(p, "fetch", Answer(answer, Null), "response-500", Null)
         [] answer = "401" ->
              \* refreshAuthToken: without a refresh token it returns false at once
              /\ errorCount' = CountAfterResponse(FALSE, errorCount)
              /\ UNCHANGED <<lockedUntil, streak>>
              /\ IF session.refreshToken = Null
                 THEN Settle(p, "fetch", Answer(answer, Null), "response-401", Null)
                 ELSE /\ calls' = [calls EXCEPT ![p].pc = "refresh"]
                      /\ reqEv' = Event("fetch", p, Answer(answer, Null), "pending", Null)

\* refreshAuthToken's request is answered. On ok the tokens are replaced and
\* secureRequest returns secureRequest(url, options): the promise of the inner call
\* is returned without await, so the outer catch block never sees its rejection.
RefreshResponds(p, answer) ==
    /\ calls[p].pc = "refresh"
    /\ csrfToken' = csrfToken
    /\ IF answer = "ok"
       THEN /\ session' = [accessToken |-> "new", refreshToken |-> "new"]
            /\ Invoke(p, calls[p].method, calls[p].sends)
       ELSE /\ session' = [accessToken |-> Null, refreshToken |-> Null]
            /\ UNCHANGED <<errorCount, lockedUntil, streak>>
            /\ Settle(p, "refresh", Answer(answer, Null), "response-401", Null)

NoTokens == [accessToken |-> Null, refreshToken |-> Null]
OldTokens == [accessToken |-> "old", refreshToken |-> "old"]
\* A session that was given an access token and no refresh token.
AccessOnly == [accessToken |-> "old", refreshToken |-> Null]

\* Module state when the script has run; sessionStorage as an earlier page left it.
InitRequest(tokens) ==
    /\ csrfToken = Null
    /\ errorCount = 0
    /\ lockedUntil = NotLocked
    /\ session = tokens
    /\ calls = [p \in Callers |-> IdleCall]
    /\ reqEv = NoReqEv
    /\ streak = 0

\* ------------------------------------------------------- secure storage
\* storageKey = null: no key in memory. Keys are numbered as generateKey makes them.
NoKey == 0
\* How many keys generateKey produces in one behaviour.
MaxKeys == 2
\* The callers of secureStore.
StoreCallers == {1}
\* The callers of initSecureStorage: initialize() at load, and the page.
InitCallers == {1, 2}
\* The keys the page stores values under; the second is the entry name of the first.
StoreKeys == {"cart", "_enc_cart"}
\* `_enc_${key}`
EncName(key) == "_enc_" \o key

\* JavaScript values that JSON represents, by type and content.
JsValue(t, v) == [t |-> t, v |-> v]
JsNull == JsValue("null", "")
StoreValues == {JsValue("object", "items:2"), JsValue("string", ""), JsNull}

\* JSON.stringify(value)
Stringify(x) ==
    CASE x.t = "object" -> "{" \o x.v \o "}"
      [] x.t = "string" -> "\"" \o x.v \o "\""
      [] x.t = "null" -> "null"

\* JSON.parse(text): the value, or a SyntaxError (ok = FALSE).
Parse(text) ==
    IF \E x \in StoreValues : Stringify(x) = text
    THEN [ok |-> TRUE, value |-> CHOOSE x \in StoreValues : Stringify(x) = text]
    ELSE [ok |-> FALSE, value |-> JsNull]

\* A string in localStorage: JSON text, or the base64 of iv + AES-GCM ciphertext
\* made from a text with a key.
Plain(text) == [cipher |-> FALSE, key |-> NoKey, text |-> text]
\* encrypt(plaintext, key)
Cipher(key, text) == [cipher |-> TRUE, key |-> key, text |-> text]

\* decrypt(encryptedBase64, key): the plaintext, or it throws (not base64 of a
\* ciphertext, or made with another key).
Decrypt(entry, key) ==
    IF entry.cipher /\ entry.key = key
    THEN [ok |-> TRUE, text |-> entry.text]
    ELSE [ok |-> FALSE, text |-> ""]

\* JSON.parse of a stored string.
ParseEntry(entry) ==
    IF entry.cipher THEN [ok |-> FALSE, value |-> JsNull] ELSE Parse(entry.text)

\* How a secureRetrieve call ends.
Returned(value) == [kind |-> "returned", value |-> value]
Threw == [kind |-> "threw", value |-> JsNull]

ReadNameLiteral(key, sk) == key
\* The entry secureRetrieve reads for a key, sk being the storage key in memory.
ReadName(key, sk) == IF sk = NoKey THEN key ELSE EncName(key)

\* localStorage.getItem(name) is truthy
HasItem(ls, name) == MapHas(ls, name) /\ ls[name].text # ""

\* secureRetrieve(key) on localStorage ls with storage key sk.
RetrieveResult(ls, sk, key) ==
    LET name == ReadName(key, sk) IN
    IF ~HasItem(ls, name) THEN Returned(JsNull)
    ELSE IF sk = NoKey
    THEN IF ParseEntry(ls[name]).ok THEN Returned(ParseEntry(ls[name]).value) ELSE Threw
    ELSE LET d == Decrypt(ls[name], sk) IN
         IF d.ok /\ Parse(d.text).ok THEN Returned(Parse(d.text).value)
         ELSE Returned(JsNull)

\* A completed secureStore / secureRetrieve / secureRemove: its key, the value
\* stored, the storage key in memory when it was called (usedKey) and whether the
\* entry was written encrypted. For a retrieve: how it ended, and whether the call
\* completed just before it was a secureStore of the same key (afterStore), whose
\* value, storage key (storeKey) and encrypted are then kept.
StoEvent(op, key, value, usedKey, encrypted) ==
    [op |-> op, key |-> key, value |-> value, usedKey |-> usedKey,
     encrypted |-> encrypted, afterStore |-> FALSE, storeKey |-> NoKey,
     result |-> Returned(JsNull)]
NoStoEv == StoEvent("none", "", JsNull, NoKey, FALSE)

RetrieveEvent(key, result) ==
    IF stoEv.op = "store" /\ stoEv.key = key
    THEN [stoEv EXCEPT !.op = "retrieve", !.afterStore = TRUE,
                       !.storeKey = stoEv.usedKey, !.usedKey = storageKey,
                       !.result = result]
    ELSE [StoEvent("retrieve", key, JsNull, storageKey, FALSE) EXCEPT !.result = result]

Completed(event) == stoEv' = event

IdleInit == [pc |-> "idle", key |-> NoKey]

NotStoring == [pc |-> "idle", key |-> "", value |-> JsNull, with |-> NoKey]

\* secureStore(key, value) is called by c: without a storage key it writes the JSON
\* text under the key and is done; with one it waits for encrypt.
secureStore(c, key, value) ==
    /\ storing[c].pc = "idle"
    /\ IF storageKey = NoKey
       THEN /\ localStorage' = MapSet(localStorage, key, Plain(Stringify(value)))
            /\ Completed(StoEvent("store", key, value, NoKey, FALSE))
            /\ storing' = storing
       ELSE /\ storing' = [storing EXCEPT ![c] =
                              [pc |-> "encrypt", key |-> key, value |-> value,
                               with |-> storageKey]]
            /\ UNCHANGED <<localStorage, stoEv>>
    /\ UNCHANGED <<secureContext, storageKey, sessionKey, keysMade, inits>>

\* encrypt settles for the secureStore of c: the ciphertext is written under
\* `_enc_<key>`, or, encrypt having thrown, the JSON text under the key.
EncryptSettles(c, answer) ==
    /\ storing[c].pc = "encrypt"
    /\ localStorage' =
         IF answer = "ok"
         THEN MapSet(localStorage, EncName(storing[c].key),
                     Cipher(storing[c].with, Stringify(storing[c].value)))
         ELSE MapSet(localStorage, storing[c].key, Plain(Stringify(storing[c].value)))
    /\ Completed(StoEvent("store", storing[c].key, storing[c].value, storing[c].with,
                          answer = "ok"))
    /\ storing' = [storing EXCEPT ![c] = NotStoring]
    /\ UNCHANGED <<secureContext, storageKey, sessionKey, keysMade, inits>>

\* secureRetrieve(key): the entry is read when it is called, and what it returns
\* depends on nothing that happens later.
secureRetrieve(key) ==
    /\ Completed(RetrieveEvent(key, RetrieveResult(localStorage, storageKey, key)))
    /\ UNCHANGED <<secureContext, storageKey, sessionKey, keysMade, localStorage,
                   inits, storing>>

\* secureRemove(key)
secureRemove(key) ==
    /\ localStorage' = MapDelete(MapDelete(localStorage, key), EncName(key))
    /\ Completed(StoEvent("remove", key, JsNull, storageKey, FALSE))
    /\ UNCHANGED <<secureContext, storageKey, sessionKey, keysMade, inits, storing>>

\* an initializer that never finds a persisted key
NoExistingKey(sk) == FALSE

\* if (existingKey), existingKey being sessionStorage.getItem('_sk')
ExistingKey(sk) == sk # NoKey

\* Calls of initSecureStorage that are waiting for generateKey.
Generating == {c \in InitCallers : inits[c].pc = "generate"}

\* initSecureStorage is called: outside a secure context it returns false; with an
\* `_sk` in session storage it waits for importKey, else for generateKey.
initSecureStorage(c) ==
    /\ inits[c].pc = "idle"
    /\ IF ~secureContext
       THEN inits' = [inits EXCEPT ![c] = IdleInit]
       ELSE IF ExistingKey(sessionKey)
       THEN inits' = [inits EXCEPT ![c] =
                         [pc |-> "import", key |-> sessionKey]]
       ELSE /\ keysMade + Cardinality(Generating) < MaxKeys
            /\ inits' = [inits EXCEPT ![c] =
                            [pc |-> "generate", key |-> NoKey]]
    /\ UNCHANGED <<secureContext, storageKey, sessionKey, keysMade, localStorage,
                   storing, stoEv>>

\* importKey(existingKey) settles.
ImportSettles(c, answer) ==
    /\ inits[c].pc = "import"
    /\ IF answer = "ok"
       THEN /\ storageKey' = inits[c].key
            /\ inits' = [inits EXCEPT ![c] = IdleInit]
       ELSE /\ storageKey' = storageKey
            /\ inits' = [inits EXCEPT ![c] = IdleInit]
    /\ UNCHANGED <<secureContext, sessionKey, keysMade, localStorage, storing,
                   stoEv>>

\* generateKey() settles: the new key is assigned to storageKey before exportKey
\* is awaited.
GenerateSettles(c, answer) ==
    /\ inits[c].pc = "generate"
    /\ IF answer = "ok"
       THEN /\ keysMade' = keysMade + 1
            /\ storageKey' = keysMade'
            /\ inits' = [inits EXCEPT ![c] =
                            [pc |-> "export", key |-> keysMade']]
       ELSE /\ UNCHANGED <<keysMade, storageKey>>
            /\ inits' = [inits EXCEPT ![c] = IdleInit]
    /\ UNCHANGED <<secureContext, sessionKey, localStorage, storing, stoEv>>

\* exportKey(storageKey) settles: the export is written to `_sk`.
ExportSettles(c, answer) ==
    /\ inits[c].pc = "export"
    /\ IF answer = "ok"
       THEN /\ sessionKey' = inits[c].key
            /\ inits' = [inits EXCEPT ![c] = IdleInit]
       ELSE /\ sessionKey' = sessionKey
            /\ inits' = [inits EXCEPT ![c] = IdleInit]
    /\ UNCHANGED <<secureContext, storageKey, keysMade, localStorage, storing,
                   stoEv>>

\* The storage state when the script has run: `_sk` and localStorage as the pages
\* before it in the session left them.
InitStorage(ctx, key, entries) ==
    /\ secureContext = ctx
    /\ storageKey = NoKey
    /\ sessionKey = key
    /\ keysMade = key
    /\ localStorage = entries
    /\ inits = [c \in InitCallers |-> IdleInit]
    /\ storing = [c \in StoreCallers |-> NotStoring]
    /\ stoEv = NoStoEv

\* ------------------------------------------------------------------ clock
Tick(d, max) ==
    /\ ticks < max
    /\ now' = now + d
    /\ ticks' = ticks + 1

\* ------------------------------------------------ rate limiter on its own
InitRate ==
    /\ now = T0
    /\ ticks = 0
    /\ rateLimiter = NoMap
    /\ blockedIPs = NoMap
    /\ rateCheck = NoResult
    /\ rlCall = NoCall
    /\ callNo = [k \in AllKeys |-> 0]
    /\ firstCallAt = [k \in AllKeys |-> 0]
    /\ lastCallAt = [k \in AllKeys |-> 0]

Init ==
    /\ InitRate
    /\ InitPage([env |-> Browser("Chrome", TRUE, "some", FALSE), btn |-> "button"])
    /\ InitRequest(NoTokens)
    /\ InitStorage(TRUE, NoKey, NoMap)

CallCheckRateLimit ==
    /\ \E key \in Keys : checkRateLimit(key)
    /\ UNCHANGED <<now, ticks, formVars, reqVars, stoVars>>

Advance ==
    /\ \E d \in Deltas : Tick(d, MaxTicks)
    /\ UNCHANGED <<rlVars, formVars, reqVars, stoVars>>

Next == CallCheckRateLimit \/ Advance

Spec == Init /\ [][Next]_vars

\* ------------------------------------------------------ the form on its page
\* Amounts by which Date.now() advances between two events of the form.
FormDeltas == {2999, 3000}

InitForm ==
    /\ InitRate
    /\ \E page \in Pages : InitPage(page)
    /\ InitRequest(NoTokens)
    /\ InitStorage(TRUE, NoKey, NoMap)

AdvanceForm ==
    /\ \E d \in FormDeltas : Tick(d, MaxFormTicks)
    /\ UNCHANGED <<rlVars, formVars, reqVars, stoVars>>

NextForm == FillForm \/ SubmitEvent \/ CallbackResolves \/ CallbackRejects \/ AdvanceForm

SpecForm == InitForm /\ [][NextForm]_vars

\* ------------------------------------------ trackFormLoad / checkFormTiming
\* Amounts by which Date.now() advances between two calls.
TimingDeltas == {1, 2999, 3000}

\* The page after load: the contact form is registered, the other form is not.
InitTiming ==
    /\ InitRate
    /\ InitPage([env |-> Browser("Chrome", TRUE, "some", FALSE), btn |-> "button"])
    /\ InitRequest(NoTokens)
    /\ InitStorage(TRUE, NoKey, NoMap)

Track ==
    /\ \E form \in Forms : TrackFormLoad(form)
    /\ UNCHANGED <<now, ticks, rlVars, reqVars, stoVars>>

CheckTiming ==
    /\ \E form \in Forms : CheckFormTiming(form)
    /\ UNCHANGED <<now, ticks, rlVars, reqVars, stoVars>>

AdvanceTiming ==
    /\ \E d \in TimingDeltas : Tick(d, MaxTicks)
    /\ UNCHANGED <<rlVars, formVars, reqVars, stoVars>>

NextTiming == Track \/ CheckTiming \/ AdvanceTiming

SpecTiming == InitTiming /\ [][NextTiming]_vars

\* ----------------------------------------------------------------- sanitize
InitSanitize ==
    /\ InitRate
    /\ InitPage([env |-> Browser("Chrome", TRUE, "some", FALSE), btn |-> "button"])
    /\ InitRequest(NoTokens)
    /\ InitStorage(TRUE, NoKey, NoMap)

Compose ==
    /\ \E piece \in Fragments : AppendFragment(piece)
    /\ UNCHANGED <<now, ticks, rlVars, reqVars, stoVars>>

Sanitize ==
    /\ CallSanitize
    /\ UNCHANGED <<now, ticks, rlVars, reqVars, stoVars>>

NextSanitize == Compose \/ Sanitize

SpecSanitize == InitSanitize /\ [][NextSanitize]_vars

\* ------------------------------------------------------------ checkHoneypot
InitHoneypot ==
    /\ InitRate
    /\ InitPage([env |-> Browser("Chrome", TRUE, "some", FALSE), btn |-> "button"])
    /\ InitRequest(NoTokens)
    /\ InitStorage(TRUE, NoKey, NoMap)

BuildForm ==
    /\ \E control \in ControlKinds : AddControl(control)
    /\ UNCHANGED <<now, ticks, rlVars, reqVars, stoVars>>

Type ==
    /\ \E i \in 1..Len(hpForm), value \in {Empty, Junk} : TypeInto(i, value)
    /\ UNCHANGED <<now, ticks, rlVars, reqVars, stoVars>>

CallCheckHoneypot ==
    /\ CheckHoneypot
    /\ UNCHANGED <<now, ticks, rlVars, reqVars, stoVars>>

NextHoneypot == BuildForm \/ Type \/ CallCheckHoneypot

SpecHoneypot == InitHoneypot /\ [][NextHoneypot]_vars

\* ------------------------------------------------------- secureRequest alone
\* Amounts by which Date.now() advances between two steps of the requests.
RequestDeltas == {299999, 300000}
\* How many times the clock is advanced in one behaviour of the requests.
MaxRequestTicks == 1

InitSecureRequest ==
    /\ InitRate
    /\ InitPage([env |-> Browser("Chrome", TRUE, "some", FALSE), btn |-> "button"])
    /\ \E tokens \in {OldTokens, AccessOnly} : InitRequest(tokens)
    /\ InitStorage(TRUE, NoKey, NoMap)

Call ==
    /\ \E p \in Callers, method \in Methods : CallSecureRequest(p, method)
    /\ UNCHANGED <<now, ticks, rlVars, formVars, stoVars>>

CsrfAnswer ==
    /\ \E p \in Callers, answer \in {"ok", "not-ok", "error"} : CsrfFetchResponds(p, answer)
    /\ UNCHANGED <<now, ticks, rlVars, formVars, stoVars>>

FetchAnswer ==
    /\ \E p \in Callers, answer \in {"ok", "401", "429", "500", "error"} :
          \E retryAfter \in IF answer = "429" THEN RetryAfters ELSE {Null} :
              FetchResponds(p, answer, retryAfter)
    /\ UNCHANGED <<now, ticks, rlVars, formVars, stoVars>>

RefreshAnswer ==
    /\ \E p \in Callers, answer \in {"ok", "not-ok", "error"} : RefreshResponds(p, answer)
    /\ UNCHANGED <<now, ticks, rlVars, formVars, stoVars>>

AdvanceRequest ==
    /\ \E d \in RequestDeltas : Tick(d, MaxRequestTicks)
    /\ UNCHANGED <<rlVars, formVars, reqVars, stoVars>>

NextRequest == Call \/ CsrfAnswer \/ FetchAnswer \/ RefreshAnswer \/ AdvanceRequest

SpecRequest == InitSecureRequest /\ [][NextRequest]_vars

\* ------------------------------------------------------ secure storage alone
\* What an earlier page of the session can have left in localStorage: nothing, or,
\* having had the storage key that is in `_sk`, an entry encrypted with it.
LeftInStorage(key) ==
    IF key = NoKey THEN {NoMap}
    ELSE {NoMap,
          MapSet(NoMap, EncName("cart"), Cipher(key, Stringify(JsValue("string", ""))))}

InitSecureStorage ==
    /\ InitRate
    /\ InitPage([env |-> Browser("Chrome", TRUE, "some", FALSE), btn |-> "button"])
    /\ InitRequest(NoTokens)
    /\ \E ctx \in BOOLEAN, key \in {NoKey, 1} :
          \E entries \in LeftInStorage(key) : InitStorage(ctx, key, entries)

\* initSecureStorage is called again only when the call before it has returned.
OneInitializer == {1}

CallInit ==
    /\ \E c \in OneInitializer : initSecureStorage(c)
    /\ UNCHANGED <<now, ticks, rlVars, formVars, reqVars>>

KeyAnswer ==
    /\ \E c \in InitCallers, answer \in {"ok", "error"} :
          \/ ImportSettles(c, answer)
          \/ GenerateSettles(c, answer)
          \/ ExportSettles(c, answer)
    /\ UNCHANGED <<now, ticks, rlVars, formVars, reqVars>>

Store ==
    /\ \E c \in StoreCallers, key \in StoreKeys, value \in StoreValues :
          secureStore(c, key, value)
    /\ UNCHANGED <<now, ticks, rlVars, formVars, reqVars>>

EncryptAnswer ==
    /\ \E c \in StoreCallers, answer \in {"ok", "error"} : EncryptSettles(c, answer)
    /\ UNCHANGED <<now, ticks, rlVars, formVars, reqVars>>

Retrieve ==
    /\ \E key \in StoreKeys : secureRetrieve(key)
    /\ UNCHANGED <<now, ticks, rlVars, formVars, reqVars>>

Remove ==
    /\ \E key \in StoreKeys : secureRemove(key)
    /\ UNCHANGED <<now, ticks, rlVars, formVars, reqVars>>

NextStorage == CallInit \/ KeyAnswer \/ Store \/ EncryptAnswer \/ Retrieve \/ Remove

SpecStorage == InitSecureStorage /\ [][NextStorage]_vars

\* ------------------------------------------- overlapping initSecureStorage
\* initialize() at load and the page both call initSecureStorage, the second call
\* possibly while the first is waiting at one of its awaits.
CallInitOverlapping ==
    /\ \E c \in InitCallers : initSecureStorage(c)
    /\ UNCHANGED <<now, ticks, rlVars, formVars, reqVars>>

NextOverlap == CallInitOverlapping \/ KeyAnswer \/ Retrieve \/ Remove

SpecOverlap == InitSecureStorage /\ [][NextOverlap]_vars

\* ------------------------------------------------------------ properties
\* The key of the last checkRateLimit call had a live block when it was called.
WasBlocked == rlCall.key \in DOMAIN rlCall.blk /\ rlCall.at < rlCall.blk[rlCall.key].until
\* The key of the last checkRateLimit call had a rate record when it was called.
HadRecord == rlCall.key \in DOMAIN rlCall.rl
PreRecord == rlCall.rl[rlCall.key]
Called == rlCall.key \in AllKeys

\* C1: for a key with no rate record and no block record, the first maxAttempts
\* calls made within windowMs of the first one each return allowed = true, with
\* remaining = maxAttempts - 1, then maxAttempts - 2, ... down to 0.
C1_FirstCallsAllowed ==
    Called =>
        LET k == rlCall.key
            n == callNo[k]
        IN  (n <= maxAttempts /\ rlCall.at - firstCallAt[k] <= windowMs)
                => rateCheck = [allowed |-> TRUE, remaining |-> maxAttempts - n]

C1_Witness ==
    /\ Called
    /\ callNo[rlCall.key] = maxAttempts
    /\ rlCall.at - firstCallAt[rlCall.key] = windowMs
    /\ rateCheck = [allowed |-> TRUE, remaining |-> 0]

\* C2: a call on a key that is not blocked and whose record has count = maxAttempts,
\* made while now - firstAttempt <= windowMs, returns allowed = false, blocked = true,
\* remainingSeconds = blockDurationMs / 1000 and creates the block record
\* until = now + blockDurationMs. A key is never blocked right after an allowed call,
\* so this is the call that follows the one that brought count to maxAttempts.
C2_BlockOnExceed ==
    /\ (Called /\ rateCheck.allowed) => rlCall.key \notin DOMAIN blockedIPs
    /\ (Called /\ HadRecord /\ ~WasBlocked
          /\ PreRecord.count = maxAttempts
          /\ rlCall.at - PreRecord.firstAttempt <= windowMs)
        => /\ rateCheck = [allowed |-> FALSE, blocked |-> TRUE, remainingSeconds |-> 300]
           /\ rlCall.key \in DOMAIN blockedIPs
           /\ blockedIPs[rlCall.key] = [until |-> rlCall.at + blockDurationMs]

C2_Witness ==
    /\ Called /\ HadRecord /\ ~WasBlocked
    /\ PreRecord.count = maxAttempts
    /\ rlCall.at - PreRecord.firstAttempt = windowMs
    /\ ~rateCheck.allowed
    /\ blockedIPs[rlCall.key].until = rlCall.at + blockDurationMs

\* C3: a call on a key whose block record has now < until returns allowed = false,
\* blocked = true and remainingSeconds = ceil((until - now) / 1000), whatever the
\* key's rate record holds.
C3_BlockedWhileLive ==
    (Called /\ WasBlocked) =>
        LET left == rlCall.blk[rlCall.key].until - rlCall.at
        IN  /\ DOMAIN rateCheck = {"allowed", "blocked", "remainingSeconds"}
            /\ rateCheck.allowed = FALSE
            /\ rateCheck.blocked = TRUE
            /\ rateCheck.remainingSeconds * 1000 >= left
            /\ (rateCheck.remainingSeconds - 1) * 1000 < left

C3_Witness ==
    /\ Called /\ WasBlocked /\ HadRecord
    /\ (rlCall.blk[rlCall.key].until - rlCall.at) % 1000 # 0
    /\ rlCall.at - PreRecord.firstAttempt > windowMs
    /\ rateCheck.blocked

\* C4: a call made at now >= until of the key's block record deletes the block
\* record and is a fresh first call: allowed = true, remaining = maxAttempts - 1,
\* and the key's record is count = 1, firstAttempt = now.
C4_BlockExpiry ==
    (Called /\ rlCall.key \in DOMAIN rlCall.blk
            /\ rlCall.at >= rlCall.blk[rlCall.key].until)
        => /\ rateCheck = [allowed |-> TRUE, remaining |-> maxAttempts - 1]
           /\ rlCall.key \notin DOMAIN blockedIPs
           /\ rlCall.key \in DOMAIN rateLimiter
           /\ rateLimiter[rlCall.key].count = 1
           /\ rateLimiter[rlCall.key].firstAttempt = rlCall.at
           /\ rateLimiter[rlCall.key].attempts = <<rlCall.at>>

C4_Witness ==
    /\ Called /\ rlCall.key \in DOMAIN rlCall.blk
    /\ rlCall.at = rlCall.blk[rlCall.key].until
    /\ rateCheck.allowed
    /\ rlCall.key \notin DOMAIN blockedIPs

\* C5: when more than windowMs has passed since the previous call on an unblocked
\* key (and, more generally, since the window started), the call is a first call:
\* the record becomes count = 1, firstAttempt = now and the call returns
\* allowed = true, remaining = maxAttempts - 1. A call at exactly
\* now - firstAttempt = windowMs is judged in the old window: firstAttempt stays,
\* and the call is counted (or refused because count had reached maxAttempts).
C5_WindowReset ==
    (Called /\ HadRecord /\ ~WasBlocked) =>
        LET k == rlCall.key
            age == rlCall.at - PreRecord.firstAttempt
        IN  /\ rlCall.prevAt >= PreRecord.firstAttempt
            /\ (rlCall.at - rlCall.prevAt > windowMs \/ age > windowMs)
                => /\ rateCheck = [allowed |-> TRUE, remaining |-> maxAttempts - 1]
                   /\ rateLimiter[k] = [count |-> 1, firstAttempt |-> rlCall.at,
                                        attempts |-> <<rlCall.at>>]
            /\ age = windowMs
                => /\ rateLimiter[k].firstAttempt = PreRecord.firstAttempt
                   /\ IF PreRecord.count < maxAttempts
                      THEN /\ rateLimiter[k].count = PreRecord.count + 1
                           /\ rateCheck = [allowed |-> TRUE,
                                           remaining |-> maxAttempts - rateLimiter[k].count]
                      ELSE /\ rateLimiter[k] = PreRecord
                           /\ rateCheck.allowed = FALSE

C5_Witness ==
    /\ Called /\ HadRecord /\ ~WasBlocked
    /\ rlCall.at - rlCall.prevAt > windowMs
    /\ PreRecord.count = 2
    /\ rateCheck.allowed /\ rateCheck.remaining = maxAttempts - 1
    /\ rateLimiter[rlCall.key].count = 1

C5_WitnessBoundary ==
    /\ Called /\ HadRecord /\ ~WasBlocked
    /\ rlCall.at - PreRecord.firstAttempt = windowMs
    /\ rateLimiter[rlCall.key].count = PreRecord.count + 1

\* A submit event has been handled.
Submitted == ev.outcome # "none"
\* What a submit event must have found for the callback to be invoked, apart from
\* the validation of the phone controls.
GatesPassed ==
    /\ ~ev.wasSubmitting
    /\ detectBot(env) = <<>>
    /\ ~checkHoneypot(ev.fields)
    /\ checkFormTiming(ev.loadTimes, Form, ev.at)
    /\ ev.rate = "allowed"
    /\ \A i \in 1..Len(FormFields) :
          /\ FormFields[i].type = "email" => isValidEmail(ev.fields[FormFields[i].name])
          /\ (FormFields[i].type \notin {"email", "tel"} /\ KeyIncludesName(FormFields[i].name))
                => isValidName(ev.fields[FormFields[i].name])
          /\ FormFields[i].required => ~IsBlank(ev.fields[FormFields[i].name])
PhonesValid ==
    \A i \in 1..Len(FormFields) :
        FormFields[i].type = "tel" => isValidPhone(ev.fields[FormFields[i].name])
PhonesValidOrEmpty ==
    \A i \in 1..Len(FormFields) :
        FormFields[i].type = "tel" =>
            \/ ev.fields[FormFields[i].name] = Empty
            \/ isValidPhone(ev.fields[FormFields[i].name])

\* C6 as stated: the callback is invoked for a submit event only if no submission
\* was in flight, detectBot returned no tags, checkHoneypot was false,
\* checkFormTiming was true, checkRateLimit returned allowed, every
\* email/phone/name control passed its validator and every required control was
\* non-empty; otherwise it is not invoked and the in-flight flag is not set.
C6_AsStated ==
    Submitted =>
        /\ ev.invoked => (GatesPassed /\ PhonesValid)
        /\ ~(GatesPassed /\ PhonesValid)
              => (~ev.invoked /\ ev.nowSubmitting = ev.wasSubmitting)

\* C6, amended: the same, where a phone control has to pass isValidPhone only when
\* it is not empty (an empty phone control is not validated).
C6_CallbackOnlyIfAllGatesPass ==
    Submitted =>
        /\ ev.invoked => (GatesPassed /\ PhonesValidOrEmpty)
        /\ ~(GatesPassed /\ PhonesValidOrEmpty)
              => (~ev.invoked /\ ev.nowSubmitting = ev.wasSubmitting)

C6_Witness ==
    /\ ev.invoked
    /\ ev.fields.phone = Empty
    /\ ev.nowSubmitting /\ ~ev.wasSubmitting

\* C7: at most one callback invocation of the form is in flight, and a submit
\* event that arrives while one is in flight is dropped: it invokes no callback.
C7_SingleFlight ==
    /\ Len(pending) <= 1
    /\ (Submitted /\ ev.inFlight > 0) => (ev.outcome = "dropped" /\ ~ev.invoked)

C7_Witness ==
    /\ ev.outcome = "dropped"
    /\ ev.inFlight = 1
    /\ Len(pending) = 1
    /\ ev.fields = FormValue(NameOk, EmailOk, PhoneOk, MsgOk, Empty)

\* C8: once the callback of a submission has settled, fulfilled or rejected, the
\* in-flight flag is clear and the submit control is enabled and shows its original
\* label, and a submit event is dropped only while a callback is in flight.
C8_SettleRestores ==
    /\ pending = <<>> =>
          /\ ~isSubmitting
          /\ ~submitBtn.disabled
          /\ Label(submitBtn) = Label(InitialBtn(submitBtn.kind))
    /\ ev.outcome = "dropped" => ev.inFlight > 0

C8_Witness ==
    /\ ev.settledBefore = "rejected"
    /\ ev.outcome = "sent"
    /\ lastSettle = "resolved"
    /\ pending = <<>>
    /\ submitBtn.kind = "input"

\* ------------------------------------------------- secureRequest: lockout

\* The last step was an invocation of secureRequest (by a caller, or the retry
\* secureRequest makes of itself after a token refresh).
Invoked == reqEv.kind = "invoke"

\* At that step a lockout was set and had not yet run out.
LockLive == reqEv.lockBefore # NotLocked /\ reqEv.at < reqEv.lockBefore

\* The last step ended a call in secureRequest's catch block: fetch had rejected,
\* or the response was a 429.
Failed == reqEv.outcome \in {"network-error", "rate-limited", "too-many-errors"}

\* C9: once secureRequest has set a lockout, every secureRequest call made while
\* now < lockedUntil fails at once with the account-locked error, sends no request
\* (neither the CSRF fetch nor the main one) whatever its method, and leaves
\* errorCount and lockedUntil as they were.
C9_LockedCallsRejected ==
    (Invoked /\ LockLive) =>
        /\ reqEv.outcome = "locked"
        /\ ~reqEv.sent
        /\ reqEv.errAfter = reqEv.errBefore
        /\ reqEv.lockAfter = reqEv.lockBefore

\* A call made in the last millisecond of a lockout was rejected.
C9_Witness ==
    /\ Invoked
    /\ reqEv.outcome = "locked"
    /\ reqEv.at = reqEv.lockBefore - 1
    /\ reqEv.errBefore >= maxConsecutiveErrors

\* C10: failures are counted since the last ok response. The failing call that
\* brings the count to 3 (or beyond) sets lockedUntil to now + 5 minutes and is
\* rejected with the too-many-errors error; a failing call that leaves the count
\* below 3 leaves lockedUntil alone, and no other step of secureRequest ever
\* changes lockedUntil.
C10_LockoutOnThirdFailure ==
    /\ Failed =>
        /\ reqEv.streak >= 1
        /\ reqEv.errAfter = reqEv.streak
        /\ (reqEv.streak >= 3) =>
               /\ reqEv.lockAfter = reqEv.at + 300000
               /\ reqEv.outcome = "too-many-errors"
        /\ (reqEv.streak < 3) => reqEv.lockAfter = reqEv.lockBefore
    /\ (reqEv.lockAfter # reqEv.lockBefore) => (Failed /\ reqEv.streak >= 3)

\* The third failure in a row, with no lockout before it, set the lockout.
C10_Witness ==
    /\ Failed
    /\ reqEv.streak = 3
    /\ reqEv.lockBefore = NotLocked
    /\ lockedUntil = now + lockoutDuration

\* ------------------------------------------- secureRequest: 401 and retry

\* C11 (as stated): whatever the backend answers, a secureRequest call sends its
\* request at most twice: once, and once more after a 401 and a token refresh.
C11_AtMostTwoSends ==
    \A p \in Callers : calls[p].sends <= 2

\* C12 (as stated): whenever the backend answers the request with a 429, the call
\* is rejected with the rate-limited error, whose message carries the value of the
\* response's Retry-After header.
C12_RateLimitedSurfaces ==
    (reqEv.kind = "fetch" /\ reqEv.answer.status = "429") =>
        /\ reqEv.outcome = "rate-limited"
        /\ reqEv.carries = reqEv.answer.retryAfter

\* ------------------------------------------------------ refreshAuthToken

\* The last step was refreshAuthToken returning false to secureRequest, which then
\* returned the 401 response: there was no refresh token, or the refresh request
\* was not answered ok.
RefreshReturnedFalse == reqEv.outcome = "response-401"

\* C13 (as stated): whenever refreshAuthToken has returned false, session storage
\* holds neither an access token nor a refresh token.
C13_TokensClearedOnFailure ==
    RefreshReturnedFalse => (session.accessToken = Null /\ session.refreshToken = Null)

\* ------------------------------------------------------- secure storage

\* The last two calls to complete were secureStore(key, value) and then
\* secureRetrieve(key) of the same key.
StoreThenRetrieve == stoEv.op = "retrieve" /\ stoEv.afterStore

\* C14: secureStore(key, v) followed by secureRetrieve(key) returns v, both when
\* the storage key is in memory for both calls and the entry was written encrypted
\* under `_enc_<key>`, and when no storage key is in memory for either call and
\* the entry was written as text under the key.
C14_RoundTrip ==
    (/\ StoreThenRetrieve
     /\ stoEv.usedKey = stoEv.storeKey
     /\ stoEv.encrypted = (stoEv.storeKey # NoKey)) =>
        stoEv.result = Returned(stoEv.value)

\* An object stored and read back encrypted.
C14_Witness ==
    /\ StoreThenRetrieve
    /\ stoEv.storeKey # NoKey
    /\ stoEv.usedKey = stoEv.storeKey
    /\ stoEv.encrypted
    /\ stoEv.value.t = "object"
    /\ stoEv.result = Returned(stoEv.value)

\* An empty string stored and read back as text.
C14_WitnessPlain ==
    /\ StoreThenRetrieve
    /\ stoEv.storeKey = NoKey
    /\ stoEv.usedKey = NoKey
    /\ stoEv.value.t = "string"
    /\ stoEv.result = Returned(stoEv.value)

\* C15 (as stated): when the storage key is in memory and encrypt fails inside
\* secureStore(key, v), the value is kept all the same and a following
\* secureRetrieve(key) returns v.
C15_FallbackReadable ==
    (/\ StoreThenRetrieve
     /\ stoEv.storeKey # NoKey
     /\ stoEv.usedKey = stoEv.storeKey
     /\ ~stoEv.encrypted) =>
        stoEv.result = Returned(stoEv.value)

\* ------------------------------------------ trackFormLoad / checkFormTiming

\* C16: a checkFormTiming(form) call made at time t after trackFormLoad(form) at
\* time t0 returns false when t - t0 < 3000 and true when t - t0 >= 3000; for a
\* form that was never tracked it returns true.
C16_TimingGate ==
    timing.form # "" =>
        IF timing.tracked
        THEN timing.result = (timing.at - timing.loadTime >= 3000)
        ELSE timing.result = TRUE

\* A check exactly 3000 ms after the load was accepted.
C16_Witness ==
    /\ timing.tracked
    /\ timing.at - timing.loadTime = 3000
    /\ timing.result = TRUE

\* A check 2999 ms after the load was refused.
C16_WitnessTooFast ==
    /\ timing.tracked
    /\ timing.at - timing.loadTime = 2999
    /\ timing.result = FALSE

\* A check of a form that was never tracked was accepted.
C16_WitnessUntracked ==
    /\ timing.form = "newsletter"
    /\ ~timing.tracked
    /\ timing.result = TRUE

\* ------------------------------------------------------------ checkHoneypot

\* C17 (as stated): checkHoneypot(form) returns true exactly when some decoy of the
\* form (a control named website, url or fax, or of class hp-field) has a
\* non-empty value, whatever the other controls hold and however many decoys
\* there are.
C17_AnyDecoyFilled ==
    hpCheck.called =>
        (hpCheck.result =
            (\E i \in DecoysOf(hpCheck.form) : hpCheck.form[i].value # Empty))

\* ----------------------------------------------------------------- sanitize

\* Some configured dangerous pattern matches somewhere in s.
Dangerous(s) == \E n \in 1..Len(Patterns) : Contains(s, Patterns[n])

\* C18 (as stated): for every input in which a configured dangerous pattern
\* matches, no configured dangerous pattern matches anywhere in what sanitize
\* returns.
C18_OutputHasNoPattern ==
    (cleaned.called /\ Dangerous(cleaned.input)) => ~Dangerous(cleaned.output)

\* --------------------------------------------- the two maps of the limiter

\* C19 (as stated): no key is ever in both the rate-limiter map and the blocked
\* map.
C19_NeverInBoth ==
    \A key \in AllKeys : ~(MapHas(rateLimiter, key) /\ MapHas(blockedIPs, key))

\* C19 (amended): a key that has a block record has a rate record as well, so it
\* is in both maps; while its block is live the block supersedes the rate record:
\* checkRateLimit answers blocked and changes neither map.
C19_BlockSupersedes ==
    /\ \A key \in AllKeys : MapHas(blockedIPs, key) => MapHas(rateLimiter, key)
    /\ (Called /\ WasBlocked) =>
          /\ ~rateCheck.allowed
          /\ rateCheck.blocked
          /\ rateLimiter = rlCall.rl
          /\ blockedIPs = rlCall.blk

\* A blocked key, its rate record still at maxAttempts, was refused again.
C19_Witness ==
    /\ Called /\ WasBlocked
    /\ MapHas(rateLimiter, rlCall.key)
    /\ MapHas(blockedIPs, rlCall.key)
    /\ rateLimiter[rlCall.key].count = maxAttempts
    /\ rateCheck.blocked

\* ------------------------------------------- after the callback has settled

\* A submit event that came less than 3000 ms after the callback before it had
\* succeeded.
SoonAfterSuccess ==
    /\ ev.outcome # "none"
    /\ ev.settle.how = "resolved"
    /\ ev.at - ev.settle.at < 3000

\* C20: when the callback of a submission succeeds the form is reset and its load
\* time is set to the time of completion, so that a submit event less than
\* 3000 ms later does not reach the callback: it is stopped by the timing check
\* (or, the decoy having been filled again, by the honeypot check before it);
\* when the callback fails the controls keep their values and the load time is
\* left as it was.
C20_RearmOnSuccessOnly ==
    /\ settle.how = "resolved" => (settle.reset /\ settle.loadAfter = settle.at)
    /\ settle.how = "rejected" => (settle.kept /\ settle.loadAfter = settle.loadBefore)
    /\ SoonAfterSuccess =>
          /\ ev.outcome \in {"too-fast", "honeypot"}
          /\ ev.outcome = "too-fast" <=> ~checkHoneypot(ev.fields)
          /\ ~ev.invoked

\* A submit with valid fields 2999 ms after a success was stopped by the timing
\* check.
C20_Witness ==
    /\ SoonAfterSuccess
    /\ ev.at - ev.settle.at = 2999
    /\ FirstInvalid(ev.fields) = 0
    /\ FirstMissing(ev.fields) = 0
    /\ ev.outcome = "too-fast"

\* A callback failed after the form had been filled: the values are still there.
C20_WitnessFailure ==
    /\ settle.how = "rejected"
    /\ settle.kept
    /\ ~settle.reset
    /\ settle.loadAfter = T0

\* ------------------------------------------------- secureRequest: CSRF token

\* C21 (as stated): a request with method POST, PUT, DELETE or PATCH that
\* secureRequest has sent carries a CSRF token in its x-csrf-token header, the
\* token having been fetched first when none was cached at the call.
C21_MutatingCarriesToken ==
    \A p \in Callers :
        (calls[p].pc \in {"fetch", "refresh"} /\ IsMutating(calls[p].method)) =>
            calls[p].csrf # Null

\* -------------------------------------------- secureRequest: count reset

\* The last step was a response to the main request of a secureRequest call.
Responded == reqEv.kind = "fetch" /\ reqEv.answer.status \in {"ok", "401", "429", "500"}

\* C22: a response that is ok sets errorCount to 0; a response that is not ok
\* (401, 429, 500) never lowers it; and no other step of secureRequest lowers it.
C22_ResetOnOkOnly ==
    /\ (Responded /\ reqEv.answer.status = "ok") => (reqEv.errAfter = 0 /\ errorCount = 0)
    /\ (Responded /\ reqEv.answer.status # "ok") => reqEv.errAfter >= reqEv.errBefore
    /\ (reqEv.errAfter < reqEv.errBefore) => (Responded /\ reqEv.answer.status = "ok")

\* An ok response arrived after two failures and set the count back to 0.
C22_Witness ==
    /\ Responded
    /\ reqEv.answer.status = "ok"
    /\ reqEv.errBefore = 2
    /\ reqEv.errAfter = 0

\* A 500 response arrived after two failures and left the count at 2.
C22_WitnessNotOk ==
    /\ Responded
    /\ reqEv.answer.status = "500"
    /\ reqEv.errBefore = 2
    /\ reqEv.errAfter = 2

\* ------------------------------------------- handleFormSubmit: gate order

\* The outcomes of a submit event stopped before the rate limiter.
EarlyOutcomes == {"dropped", "bot", "honeypot", "too-fast"}

\* The last submit event was stopped by the first gate, in the order in-flight
\* guard, bot heuristic, honeypot, timing, that refused it.
FirstFailingGate ==
    LET guard == ev.wasSubmitting
        bot == detectBot(env) # <<>>
        decoy == checkHoneypot(ev.fields)
        fast == ~checkFormTiming(ev.loadTimes, Form, ev.at)
    IN  /\ ev.outcome = "dropped" <=> guard
        /\ ev.outcome = "bot" <=> (~guard /\ bot)
        /\ ev.outcome = "honeypot" <=> (~guard /\ ~bot /\ decoy)
        /\ ev.outcome = "too-fast" <=> (~guard /\ ~bot /\ ~decoy /\ fast)
        /\ ev.rate = "skipped" <=> ev.outcome \in EarlyOutcomes

\* C23: a submit event is stopped by the first failing gate in the order
\* in-flight guard, bot heuristic, honeypot, timing, rate limit; an event stopped
\* by one of the first four leaves the rate-limiter map and the blocked map as
\* they were.
C23_EarlyRejectConsumesNothing ==
    /\ [](ev.outcome # "none" => FirstFailingGate)
    /\ [][(SubmitEvent /\ ev'.outcome \in EarlyOutcomes) =>
             UNCHANGED <<rateLimiter, blockedIPs>>]_vars

\* A submit was stopped by the timing check while the key had a rate record with
\* attempts left: the record is what the earlier submit had left.
C23_Witness ==
    /\ ev.outcome = "too-fast"
    /\ ev.rate = "skipped"
    /\ MapHas(rateLimiter, FormKey)
    /\ rateLimiter[FormKey].count = 1
    /\ ~MapHas(blockedIPs, FormKey)

\* ------------------------------------------------- initSecureStorage: `_sk`

\* C24: with initSecureStorage called again only after the call before it has
\* returned, in a secure context: `_sk` is written only when it was absent, and
\* what is written is the export of the key just generated, which is the storage
\* key in memory; once `_sk` is present it is never written again, no key is
\* generated any more, every call waits for importKey of the persisted key, and a
\* successful import makes that key the storage key.
C24_PersistedKeyReused ==
    /\ [][sessionKey' # sessionKey =>
             /\ sessionKey = NoKey
             /\ sessionKey' = keysMade
             /\ sessionKey' = storageKey']_vars
    /\ [][sessionKey # NoKey =>
             /\ keysMade' = keysMade
             /\ storageKey' \in {storageKey, sessionKey}
             /\ \A c \in OneInitializer :
                   inits'[c] # inits[c] =>
                       \/ inits'[c] = [pc |-> "import", key |-> sessionKey]
                       \/ inits'[c] = IdleInit]_vars
    /\ [](~secureContext => (storageKey = NoKey /\ keysMade = sessionKey))

\* A key was generated and persisted, and a later call is importing it.
C24_Witness ==
    /\ secureContext
    /\ sessionKey # NoKey
    /\ storageKey = sessionKey
    /\ inits[1] = [pc |-> "import", key |-> sessionKey]

\* The persisted key is one generated in this behaviour (the export of an earlier
\* one had failed), and a later call is importing it.
C24_WitnessGenerated ==
    /\ sessionKey = 2
    /\ storageKey = 2
    /\ inits[1] = [pc |-> "import", key |-> 2]

\* ------------------------------------------- checkRateLimit: refused calls

\* C25: every result of checkRateLimit with allowed = false has blocked = true,
\* and so no submit event ends in the handler's branch for a refusal that is not
\* a block (the generic wait message).
C25_RefusedMeansBlocked ==
    /\ (Called /\ ~rateCheck.allowed) =>
          /\ "blocked" \in DOMAIN rateCheck
          /\ rateCheck.blocked = TRUE
    /\ ev.outcome # "throttled"
    /\ ev.rate = "refused" => ev.outcome = "blocked"

\* A submit event was refused by the rate limiter, which had just created the
\* block.
C25_Witness ==
    /\ ev.outcome = "blocked"
    /\ ev.rate = "refused"
    /\ Called /\ ~WasBlocked
    /\ rlCall.at = ev.at
    /\ rateCheck = [allowed |-> FALSE, blocked |-> TRUE, remainingSeconds |-> 300]

\* A submit event was refused while the block was live.
C25_WitnessLive ==
    /\ ev.outcome = "blocked"
    /\ Called /\ WasBlocked
    /\ rlCall.at = ev.at
    /\ rateCheck.blocked

\* --------------------------------------------- checkRateLimit: rate records

\* C26: every rate record has 1 <= count <= maxAttempts, an attempts list of
\* exactly count entries, and every recorded attempt between firstAttempt and
\* firstAttempt + windowMs.
C26_RecordWellFormed ==
    \A key \in AllKeys :
        MapHas(rateLimiter, key) =>
            LET rec == rateLimiter[key]
            IN  /\ 1 <= rec.count
                /\ rec.count <= maxAttempts
                /\ Len(rec.attempts) = rec.count
                /\ \A i \in 1..Len(rec.attempts) :
                      /\ rec.firstAttempt <= rec.attempts[i]
                      /\ rec.attempts[i] <= rec.firstAttempt + windowMs

\* A record is full, and its last attempt was made at the very end of the window.
C26_Witness ==
    \E key \in AllKeys :
        /\ MapHas(rateLimiter, key)
        /\ rateLimiter[key].count = maxAttempts
        /\ Len(rateLimiter[key].attempts) = maxAttempts
        /\ rateLimiter[key].attempts[maxAttempts] = rateLimiter[key].firstAttempt + windowMs

\* --------------------------------------------- checkRateLimit: during a block

\* C27: a checkRateLimit(key) call made while the key's block is live changes
\* neither map; and as long as a block is live no step changes its until, whoever
\* calls and however often.
C27_BlockedCallChangesNothing ==
    /\ [][\A key \in AllKeys :
             (checkRateLimit(key) /\ IsBlocked(blockedIPs, key, now)) =>
                 UNCHANGED <<rateLimiter, blockedIPs>>]_vars
    /\ [][\A key \in AllKeys :
             IsBlocked(blockedIPs, key, now) =>
                 /\ MapHas(blockedIPs', key)
                 /\ blockedIPs'[key].until = blockedIPs[key].until]_vars

\* The second call in a row refused during one block: the block still ends
\* blockDurationMs after the call that created it.
C27_Witness ==
    /\ Called /\ WasBlocked
    /\ rlCall.prevAt < rlCall.at
    /\ rlCall.blk[rlCall.key].until < rlCall.prevAt + blockDurationMs
    /\ blockedIPs = rlCall.blk
    /\ rateLimiter = rlCall.rl
    /\ rateLimiter[rlCall.key].count = maxAttempts

\* ------------------------------ handleFormSubmit: attempts of invalid submits

\* The last submit event was stopped by the field validation or by the check of
\* the required controls.
FailedValidation == ev.outcome \in {"invalid", "required"}

\* No submit event has invoked the callback so far: every attempt the rate
\* limiter has counted for the form was a submit that failed validation.
NeverInvoked == lastSettle = "none" /\ pending = <<>>

\* C28: a submit event that fails validation has been counted by the rate
\* limiter (one attempt more in the running window, or the first of a new one)
\* without the callback being invoked; and when maxAttempts such events have been
\* counted in the window and nothing else, the next submit event in the window
\* is refused and the form's key blocked until blockDurationMs later.
C28_InvalidSubmitsConsumeAttempts ==
    /\ FailedValidation =>
          /\ ~ev.invoked
          /\ ev.rate = "allowed"
          /\ rlCall.key = FormKey /\ rlCall.at = ev.at
          /\ rateLimiter[FormKey].count =
                IF HadRecord /\ ~WindowExpired(PreRecord, rlCall.at) /\ ~(rlCall.key \in DOMAIN rlCall.blk)
                THEN PreRecord.count + 1 ELSE 1
    /\ (NeverInvoked /\ ev.rate # "skipped" /\ HadRecord /\ ~WasBlocked
            /\ PreRecord.count = maxAttempts
            /\ rlCall.at - PreRecord.firstAttempt <= windowMs) =>
          /\ ev.outcome = "blocked"
          /\ blockedIPs[FormKey].until = ev.at + blockDurationMs

\* Three submit events failed validation within the window, no callback was ever
\* invoked, and the fourth submit has just been blocked.
C28_Witness ==
    /\ NeverInvoked
    /\ ev.outcome = "blocked"
    /\ ~WasBlocked
    /\ PreRecord.count = maxAttempts
    /\ blockedIPs[FormKey].until = ev.at + blockDurationMs
    /\ FirstInvalid(ev.fields) # 0

\* ------------------------------------------ secureRequest: a failing retry

\* The last step ended a call in the catch block, and the request that failed was
\* the retry sent after a 401 and a successful token refresh.
RetryFailed == Failed /\ reqEv.kind = "fetch" /\ reqEv.sends >= 2

\* C29 (as stated): when the retry fails with a thrown error, errorCount has been
\* raised by 2 for that one top-level call.
C29_RetryCountedTwice ==
    RetryFailed => reqEv.errAfter = reqEv.errBefore + 2

\* C29 (amended): when the retry fails with a thrown error, errorCount is raised
\* by exactly 1: the retry's promise is returned without await, so the catch
\* block of the outer call never runs. No step of secureRequest raises the count
\* by more than 1, and a lockout is set only by the third failure in a row, each
\* of a different top-level call.
C29_RetryCountedOnce ==
    /\ RetryFailed => reqEv.errAfter = reqEv.errBefore + 1
    /\ reqEv.errAfter <= reqEv.errBefore + 1
    /\ (reqEv.lockAfter # reqEv.lockBefore) => (reqEv.errAfter >= 3 /\ reqEv.streak >= 3)

\* The retry of the first call made failed: the count went from 0 to 1, and no
\* lockout was set.
C29_Witness ==
    /\ RetryFailed
    /\ reqEv.sends = 2
    /\ reqEv.errBefore = 0
    /\ reqEv.errAfter = 1
    /\ errorCount = 1
    /\ lockedUntil = NotLocked

\* ------------------------------------------ secureRequest: after a lockout

\* At the last step a lockout had been set and had run out.
LockExpired == reqEv.lockBefore # NotLocked /\ reqEv.at >= reqEv.lockBefore

\* C30: the passing of time resets neither errorCount nor lockedUntil; a call
\* made when the lockout has run out is attempted (a request is sent) and leaves
\* both as they are; and when a request fails with a thrown error after the
\* lockout has run out, the count still being at the threshold or above, that one
\* failure sets a new lockout of lockoutDuration from now.
C30_CountSurvivesExpiry ==
    /\ [][now' # now => (errorCount' = errorCount /\ lockedUntil' = lockedUntil)]_vars
    /\ []((Invoked /\ LockExpired) =>
            /\ reqEv.sent
            /\ reqEv.outcome = "pending"
            /\ reqEv.errAfter = reqEv.errBefore
            /\ reqEv.lockAfter = reqEv.lockBefore)
    /\ []((Failed /\ LockExpired /\ reqEv.errBefore >= maxConsecutiveErrors) =>
            /\ reqEv.errAfter = reqEv.errBefore + 1
            /\ reqEv.lockAfter = reqEv.at + lockoutDuration
            /\ reqEv.outcome = "too-many-errors")

\* A lockout was set by three failures and ran out; the one request that failed
\* next, the first failure since, set a new lockout.
C30_Witness ==
    /\ Failed /\ LockExpired
    /\ reqEv.errBefore = 3
    /\ reqEv.streak = 4
    /\ errorCount = 4
    /\ lockedUntil = now + lockoutDuration
    /\ reqEv.lockBefore = now

\* --------------------------------------- initSecureStorage: overlapping calls

\* No initSecureStorage call is waiting at an await.
NoInitInProgress == \A c \in InitCallers : inits[c].pc = "idle"

\* C31 (as stated): whenever no initSecureStorage call is in progress and the
\* storage key in memory is set, `_sk` in session storage holds the export of
\* that same key, also when two initSecureStorage calls have overlapped.
C31_SkMatchesStorageKey ==
    (NoInitInProgress /\ storageKey # NoKey) => sessionKey = storageKey

\* ------------------------------- secureStore before, secureRetrieve after a key

\* The last two calls to complete were secureStore(key, v), made with no storage
\* key in memory, and secureRetrieve(key), made with one.
StoredBeforeKeyReadAfter ==
    /\ StoreThenRetrieve
    /\ stoEv.storeKey = NoKey
    /\ stoEv.usedKey # NoKey

\* The value was written as JSON text under the literal key.
WrittenInPlaintext ==
    /\ MapHas(localStorage, stoEv.key)
    /\ localStorage[stoEv.key] = Plain(Stringify(stoEv.value))

\* C32 (as stated): a value stored while no storage key was in memory is written
\* in plaintext under the literal key, and a secureRetrieve of the key made once
\* a storage key is in memory returns null.
C32_PlainValueReadsNull ==
    StoredBeforeKeyReadAfter =>
        /\ WrittenInPlaintext
        /\ stoEv.result = Returned(JsNull)

\* C32 (amended): the value is written in plaintext under the literal key, and
\* the secureRetrieve reads only `_enc_<key>`: it returns null when there is no
\* such entry or the entry does not decrypt with the storage key, and otherwise
\* the value an earlier encrypted store left there, never reading the entry just
\* written.
C32_PlainValueNotRead ==
    StoredBeforeKeyReadAfter =>
        LET enc == EncName(stoEv.key)
        IN  /\ WrittenInPlaintext
            /\ stoEv.result =
                  IF /\ MapHas(localStorage, enc)
                     /\ localStorage[enc].cipher
                     /\ localStorage[enc].key = stoEv.usedKey
                  THEN Returned(Parse(localStorage[enc].text).value)
                  ELSE Returned(JsNull)

\* An object was stored before the key was there and read after: null came back
\* while the object sits in plaintext under the key.
C32_Witness ==
    /\ StoredBeforeKeyReadAfter
    /\ stoEv.value.t = "object"
    /\ WrittenInPlaintext
    /\ ~MapHas(localStorage, EncName(stoEv.key))
    /\ stoEv.result = Returned(JsNull)

\* The same, with an entry of an earlier page under `_enc_<key>`: its value came
\* back.
C32_WitnessStale ==
    /\ StoredBeforeKeyReadAfter
    /\ stoEv.value.t = "object"
    /\ WrittenInPlaintext
    /\ stoEv.result = Returned(JsValue("string", ""))

====
